---- MODULE Spec2Model ----
(***************************************************************************)
(* openaur: the two-stage pipeline (fast model for analysis, quality model *)
(* for the answer), its credential state, the OpenAI-compatible            *)
(* /v1/chat/completions handler, the /chat handler with Instant Preview,  *)
(* the OpenRouter client, the memory service, the tmux sessions, the       *)
(* dashboard websocket, the action registry and the sub-agents.  The       *)
(* specifications share the state, each over the operations of one part    *)
(* of the program: SpecClassify, SpecFallback, SpecPipeline, SpecPreview,  *)
(* SpecClient, SpecMemory, SpecUsers, SpecSessions, SpecSockets,           *)
(* SpecActions and SpecAgents.                                             *)
(*                                                                         *)
(* User messages are sequences of characters; the text a model returns is  *)
(* a sequence of lexical tokens (code fence, the word json, white space,   *)
(* a quote, a bare word, one JSON value).                                  *)
(***************************************************************************)
EXTENDS Integers, Sequences, FiniteSets, TLC

(***************************************************************************)
(* Python str operations used by the code.                                 *)
(***************************************************************************)
UpperChars ==
    <<"A","B","C","D","E","F","G","H","I","J","K","L","M",
      "N","O","P","Q","R","S","T","U","V","W","X","Y","Z">>

LowerChars ==
    <<"a","b","c","d","e","f","g","h","i","j","k","l","m",
      "n","o","p","q","r","s","t","u","v","w","x","y","z">>

LowerChar(c) ==
    IF \E i \in 1..Len(UpperChars) : UpperChars[i] = c
    THEN LowerChars[CHOOSE i \in 1..Len(UpperChars) : UpperChars[i] = c]
    ELSE c

\* str.lower()
RECURSIVE Lower(_)
Lower(s) == IF s = <<>> THEN <<>> ELSE <<LowerChar(s[1])>> \o Lower(Tail(s))

IsSpace(c) == c \in {" ", "\n", "\t"}

RECURSIVE LStrip(_)
LStrip(s) == IF Len(s) > 0 /\ IsSpace(s[1]) THEN LStrip(Tail(s)) ELSE s

RECURSIVE RStrip(_)
RStrip(s) ==
    IF Len(s) > 0 /\ IsSpace(s[Len(s)]) THEN RStrip(SubSeq(s, 1, Len(s) - 1)) ELSE s

\* str.strip()
Strip(s) == RStrip(LStrip(s))

\* str.startswith(p), str.endswith(p), p in s, s[n:], s[:-n]
StartsWith(s, p) == Len(p) <= Len(s) /\ SubSeq(s, 1, Len(p)) = p

EndsWith(s, p) == Len(p) <= Len(s) /\ SubSeq(s, Len(s) - Len(p) + 1, Len(s)) = p

Contains(s, p) == \E i \in 0..(Len(s) - Len(p)) : SubSeq(s, i + 1, i + Len(p)) = p

DropFirst(s, n) == SubSeq(s, n + 1, Len(s))

DropLast(s, n) == SubSeq(s, 1, Len(s) - n)

(***************************************************************************)
(* User messages.                                                          *)
(***************************************************************************)
MsgHi ==
    <<"h","i">>

MsgInstall ==
    <<"i","n","s","t","a","l","l"," ","1","p","a","s","s","w","o","r","d">>

MsgRefactor ==
    <<"p","l","e","a","s","e"," ","r","e","f","a","c","t","o","r"," ","t","h","i","s"," ","4",
      "0","0","-","l","i","n","e"," ","m","o","d","u","l","e"," ","t","o"," ","u","s","e"," ",
      "d","e","p","e","n","d","e","n","c","y"," ","i","n","j","e","c","t","i","o","n">>

MsgWhySlow ==
    <<"w","h","y"," ","s","o"," ","s","l","o","w","?">>

MsgRunGit ==
    <<"R","u","n"," ","g","i","t"," ","s","t","a","t","u","s">>

MsgRecall ==
    <<"d","o"," ","y","o","u"," ","r","e","m","e","m","b","e","r"," ","w","h","a","t"," ","I"," ","s","a","i","d"," ","b","e","f","o","r","e","?">>

\* a pasted key: sk-or-v1- and 48 hexadecimal digits
MsgPasteKey ==
    <<"s","k","-","o","r","-","v","1","-","0","1","2","3","4","5","6","7","8","9","a","b","c","d","e","f","0","1","2","3","4","5","6","7","8","9","a","b","c","d","e","f","0","1","2","3","4","5","6","7","8","9","a","b","c","d","e","f">>

\* the messages handed to the classification operations
\* words of the package, the action and the memory group in one message
MsgInstallGit ==
    <<"i","n","s","t","a","l","l"," ","g","i","t"," ","a","s"," ","I"," ","s","a","i","d">>

\* words of the action and the memory group
MsgRunSaid ==
    <<"r","u","n"," ","w","h","a","t"," ","I"," ","s","a","i","d">>

Messages ==
    {MsgHi, MsgInstall, MsgRefactor, MsgWhySlow, MsgRunGit, MsgRecall, MsgInstallGit,
     MsgRunSaid}

\* the last user message of a chat request; empty when the request carries none
ChatMessages == {MsgHi, MsgInstall, MsgRefactor, MsgRunGit, MsgRecall, MsgPasteKey, <<>>}

UserMessages == Messages \cup ChatMessages

(***************************************************************************)
(* JSON values, and the tokens of a model's reply.  A JSON value keeps     *)
(* what the consumers read: its kind, the keys of an object, the intent    *)
(* and needs_action entries, the number of elements of an array, and       *)
(* whether the entries the consumers format or concatenate (urgency,       *)
(* confidence, tools_mentioned) have the type they expect.                 *)
(***************************************************************************)
Json(kind, keys, intent, needs_action, typed) ==
    [kind |-> kind, keys |-> keys, items |-> 0, intent |-> intent,
     needs_action |-> needs_action, typed |-> typed]

\* an array of n elements
JsonArray(n) == [Json("array", {}, "", FALSE, TRUE) EXCEPT !.items = n]

IntentKeys ==
    {"intent", "needs_action", "needs_package", "needs_memory",
     "tools_mentioned", "confidence"}

SentimentKeys == {"sentiment", "emotion", "urgency", "complexity", "tone"}

\* The value each JSON token of a reply decodes to.
JsonOf(tok) ==
    CASE tok = "{package}" -> Json("object", IntentKeys, "package", TRUE, TRUE)
      [] tok = "{action}" -> Json("object", IntentKeys, "action", TRUE, TRUE)
      [] tok = "{memory}" -> Json("object", IntentKeys, "memory", FALSE, TRUE)
      [] tok = "{chat}" -> Json("object", IntentKeys, "chat", FALSE, TRUE)
      [] tok = "{action,tools:str}" -> Json("object", IntentKeys, "action", TRUE, FALSE)
      [] tok = "{sentiment}" -> Json("object", SentimentKeys, "", FALSE, TRUE)
      [] tok = "{sentiment,urgency:str}" -> Json("object", SentimentKeys, "", FALSE, FALSE)
      [] tok = "{}" -> Json("object", {}, "", FALSE, TRUE)
      [] tok = "[]" -> JsonArray(0)
      [] tok = "[suggestion]" -> JsonArray(1)
      [] tok = "42" -> Json("number", {}, "", FALSE, TRUE)
      [] tok = "null" -> Json("null", {}, "", FALSE, TRUE)
      [] OTHER -> Json("undefined", {}, "", FALSE, TRUE)

JsonTokens ==
    {"{package}", "{action}", "{memory}", "{chat}", "{action,tools:str}",
     "{sentiment}", "{sentiment,urgency:str}", "{}", "[]", "[suggestion]",
     "42", "null"}

\* The token of a Markdown code fence (three backticks), and of a double quote.
Fence == "<fence>"

Quote == "<quote>"

\* json.loads(text): one JSON value between optional white space, or a quoted
\* word (a JSON string); anything else is a JSONDecodeError.
JsonLoads(text) ==
    LET t == Strip(text)
    IN  IF Len(t) = 1 /\ t[1] \in JsonTokens
        THEN [ok |-> TRUE, value |-> JsonOf(t[1])]
        ELSE IF Len(t) = 3 /\ t[1] = Quote /\ t[3] = Quote
                  /\ t[2] \notin (JsonTokens \cup {Fence, Quote}) /\ ~IsSpace(t[2])
        THEN [ok |-> TRUE, value |-> Json("string", {}, "", FALSE, TRUE)]
        ELSE [ok |-> FALSE, value |-> Json("undefined", {}, "", FALSE, TRUE)]

\* text.split(fence)[1]: what lies between the first fence and the second (or the
\* end); defined when the text holds a fence.
RECURSIVE UpToFence(_)
UpToFence(s) ==
    IF Len(s) = 0 \/ s[1] = Fence THEN <<>> ELSE <<s[1]>> \o UpToFence(Tail(s))

RECURSIVE AfterFirstFence(_)
AfterFirstFence(s) ==
    IF Len(s) = 0 THEN <<>>
    ELSE IF s[1] = Fence THEN Tail(s) ELSE AfterFirstFence(Tail(s))

SplitFenceSecond(s) == UpToFence(AfterFirstFence(s))

(***************************************************************************)
(* TwoStageProcessor: the offline keyword fallback and the quick-mode test. *)
(***************************************************************************)
PackageWords ==
    {<<"i","n","s","t","a","l","l">>,
     <<"p","a","c","k","a","g","e">>,
     <<"a","p","t">>,
     <<"y","a","y">>,
     <<"p","a","c","m","a","n">>}

ActionWords ==
    {<<"r","u","n">>,
     <<"e","x","e","c","u","t","e">>,
     <<"c","o","m","m","a","n","d">>,
     <<"g","i","t">>,
     <<"d","o","c","k","e","r">>,
     <<"b","u","i","l","d">>}

MemoryWords ==
    {<<"r","e","m","e","m","b","e","r">>,
     <<"p","r","e","v","i","o","u","s">>,
     <<"b","e","f","o","r","e">>,
     <<"s","a","i","d">>}

Greetings ==
    {<<"h","i">>,
     <<"h","e","l","l","o">>,
     <<"h","e","y">>,
     <<"h","o","w","d","y">>,
     <<"g","r","e","e","t","i","n","g","s">>,
     <<"y","o">>,
     <<"s","u","p">>}

SimplePatterns ==
    {<<"h","o","w"," ","a","r","e"," ","y","o","u">>,
     <<"s","t","a","t","u","s">>,
     <<"h","e","a","l","t","h">>,
     <<"h","e","a","r","t">>,
     <<"w","h","a","t"," ","c","a","n"," ","y","o","u"," ","d","o">>,
     <<"h","e","l","p">>,
     <<"i","n","f","o">>,
     <<"a","b","o","u","t">>,
     <<"t","i","m","e">>,
     <<"d","a","t","e">>,
     <<"w","e","a","t","h","e","r">>,
     <<"o","k">>,
     <<"t","h","a","n","k","s">>,
     <<"t","h","a","n","k"," ","y","o","u">>,
     <<"b","y","e">>,
     <<"g","o","o","d","b","y","e">>}

\* len(msg_lower) < 20
ShortQueryLen == 20

\* _fallback_analysis, were the action words looked for first
FallbackAnalysis_ActionFirst(system_prompt, user_message) ==
    LET msg_lower == Lower(user_message)
    IN  IF \E w \in ActionWords : Contains(msg_lower, w) THEN <<"{action}">>
        ELSE IF \E w \in PackageWords : Contains(msg_lower, w) THEN <<"{package}">>
        ELSE IF \E w \in MemoryWords : Contains(msg_lower, w) THEN <<"{memory}">>
        ELSE <<"{chat}">>

\* _fallback_analysis: the reply text, one JSON object; system_prompt is not read.
FallbackAnalysis(system_prompt, user_message) ==
    LET msg_lower == Lower(user_message)
    IN  IF \E w \in PackageWords : Contains(msg_lower, w) THEN <<"{package}">>
        ELSE IF \E w \in ActionWords : Contains(msg_lower, w) THEN <<"{action}">>
        ELSE IF \E w \in MemoryWords : Contains(msg_lower, w) THEN <<"{memory}">>
        ELSE <<"{chat}">>

\* is_simple_query, were a greeting looked for anywhere in the message
is_simple_query_GreetingAnywhere(user_message) ==
    LET msg_lower == Strip(Lower(user_message))
    IN  \/ \E g \in Greetings : Contains(msg_lower, g)
        \/ \E p \in SimplePatterns : Contains(msg_lower, p)
        \/ Len(msg_lower) < ShortQueryLen /\ ~Contains(msg_lower, <<"?">>)

is_simple_query(user_message) ==
    LET msg_lower == Strip(Lower(user_message))
    IN  \/ msg_lower \in Greetings
        \/ \E g \in Greetings : StartsWith(msg_lower, g)
        \/ \E p \in SimplePatterns : Contains(msg_lower, p)
        \/ Len(msg_lower) < ShortQueryLen /\ ~Contains(msg_lower, <<"?">>)

\* The system prompts of the four classification operations.
SystemPrompts == {"intent", "sentiment", "memory", "actions"}

\* Both functions of every message of the model, computed once.
FallbackTable ==
    [p \in SystemPrompts, m \in UserMessages |-> FallbackAnalysis(p, m)]

IsSimpleTable == [m \in UserMessages |-> is_simple_query(m)]

(***************************************************************************)
(* Credentials.  A key is known by its length and by what the checks of    *)
(* the code read of it.                                                    *)
(***************************************************************************)
Key(id, len, placeholder, prefixed, hex) ==
    [id |-> id, len |-> len, placeholder |-> placeholder,
     prefixed |-> prefixed, hex |-> hex]

\* os.getenv gives None
KeyAbsent == Key("absent", 0, FALSE, FALSE, FALSE)

\* "your_openrouter_api_key_here"
KeyPlaceholder == Key("placeholder", 28, TRUE, FALSE, FALSE)

\* "sk-or-v1-" followed by hexadecimal digits, of several lengths
KeyLen19 == Key("sk19", 19, FALSE, TRUE, TRUE)

KeyLen20 == Key("sk20", 20, FALSE, TRUE, TRUE)

KeyLen21 == Key("sk21", 21, FALSE, TRUE, TRUE)

KeyLen73 == Key("sk73", 73, FALSE, TRUE, TRUE)

\* some other text of 30 characters
KeyOther30 == Key("other30", 30, FALSE, FALSE, FALSE)

\* what the environment holds at start-up
EnvKeys == {KeyAbsent, KeyPlaceholder, KeyLen20, KeyLen21, KeyLen73}

\* what the body of a request to save a key carries
RequestKeys == {KeyPlaceholder, KeyLen19, KeyLen20, KeyLen73, KeyOther30}

\* len(api_key) > 20
MinValidKeyLen == 20

\* len(request.api_key) < 20
SaveKeyMinLen == 20

\* api_key and api_key != "your_openrouter_api_key_here" and len(api_key) > 20
KeyIsValid(k) == k.id # "absent" /\ k.len > 0 /\ ~k.placeholder /\ k.len > MinValidKeyLen

(***************************************************************************)
(* Outcomes of one HTTP call to a model.                                   *)
(***************************************************************************)
FastTexts ==
    {<<"{sentiment}">>,
     <<"{chat}">>,
     <<Fence, "json", "\n", "{action}", "\n", Fence>>,
     <<Fence, "\n", "{sentiment,urgency:str}", "\n", Fence>>,
     <<Fence, "json", "{package}", Fence, " ", "done">>,
     <<"{action,tools:str}">>,
     <<"{}">>,
     <<"[]">>,
     <<"[suggestion]">>,
     <<Fence, "json", "[suggestion]", Fence>>,
     <<"42">>,
     <<"null">>,
     <<"sorry">>,
     <<"NONE">>,
     <<Quote, "none", Quote>>,
     <<"command">>,
     <<" ">>,
     <<>>}

Outcome(kind, text) == [kind |-> kind, text |-> text]

\* the request raised; a status other than 200; status 200 and a body that is no
\* JSON or lacks choices[0].message.content; status 200 and content null; status
\* 200 and a text content
FastOutcomes ==
    {Outcome(k, <<>>) : k \in {"exception", "non200", "badbody", "null_content"}}
        \cup {Outcome("ok", t) : t \in FastTexts}

\* What except Exception catches: every exception raised here.
Exceptions ==
    {"AttributeError", "JSONDecodeError", "TypeError", "ValueError", "KeyError",
     "HTTPException", "ValidationError", "Exception"}

ExceptException(exc) == exc \in Exceptions

\* _call_fast: the text returned (None when the content is null), the number of
\* HTTP requests issued, and whether the text is the offline fallback's.
CallFast(valid_key, system_prompt, user_message, net) ==
    IF ~valid_key
    THEN [http |-> 0, fallback |-> TRUE, none |-> FALSE,
          text |-> FallbackTable[system_prompt, user_message]]
    ELSE IF net.kind = "ok"
    THEN [http |-> 1, fallback |-> FALSE, none |-> FALSE, text |-> net.text]
    ELSE IF net.kind = "null_content"
    THEN [http |-> 1, fallback |-> FALSE, none |-> TRUE, text |-> <<>>]
    ELSE [http |-> 1, fallback |-> TRUE, none |-> FALSE,
          text |-> FallbackTable[system_prompt, user_message]]

DefaultIntent == Json("object", IntentKeys, "chat", FALSE, TRUE)

DefaultSentiment == Json("object", SentimentKeys, "", FALSE, TRUE)

NoJson == Json("undefined", {}, "", FALSE, TRUE)

\* The result of a classification call: the value returned to the caller, the
\* exception that escaped ("none" when it returned), the HTTP requests issued.
Classified(r, exc, value, default) ==
    [http |-> r.http, fallback |-> r.fallback,
     raised |-> IF exc # "none" /\ ~ExceptException(exc) THEN exc ELSE "none",
     value |-> IF exc = "none" THEN value
               ELSE IF ExceptException(exc) THEN default ELSE NoJson]

analyze_intent(valid_key, user_message, net) ==
    LET r == CallFast(valid_key, "intent", user_message, net)
        s1 == Strip(r.text)
        s2 == IF StartsWith(s1, <<Fence, "json">>) THEN DropFirst(s1, 2) ELSE s1
        s3 == IF StartsWith(s2, <<Fence>>) THEN DropFirst(s2, 1) ELSE s2
        s4 == IF EndsWith(s3, <<Fence>>) THEN DropLast(s3, 1) ELSE s3
        p == JsonLoads(Strip(s4))
        exc == IF r.none THEN "AttributeError"
               ELSE IF ~p.ok THEN "JSONDecodeError" ELSE "none"
    IN  Classified(r, exc, p.value, DefaultIntent)

analyze_sentiment(valid_key, user_message, net) ==
    LET r == CallFast(valid_key, "sentiment", user_message, net)
        s1 == Strip(r.text)
        s2 == IF StartsWith(s1, <<Fence>>) THEN SplitFenceSecond(s1) ELSE s1
        s3 == IF StartsWith(s1, <<Fence>>) /\ StartsWith(s2, <<"json">>)
              THEN DropFirst(s2, 1) ELSE s2
        p == JsonLoads(Strip(s3))
        exc == IF r.none THEN "AttributeError"
               ELSE IF ~p.ok THEN "JSONDecodeError" ELSE "none"
    IN  Classified(r, exc, p.value, DefaultSentiment)

\* str.strip('"')
RECURSIVE LStripQuotes(_)
LStripQuotes(s) == IF Len(s) > 0 /\ s[1] = Quote THEN LStripQuotes(Tail(s)) ELSE s

RECURSIVE RStripQuotes(_)
RStripQuotes(s) ==
    IF Len(s) > 0 /\ s[Len(s)] = Quote
    THEN RStripQuotes(SubSeq(s, 1, Len(s) - 1)) ELSE s

StripQuotes(s) == RStripQuotes(LStripQuotes(s))

\* extract_memory_query: none is Python's None, text the query otherwise.
extract_memory_query(valid_key, user_message, net) ==
    LET r == CallFast(valid_key, "memory", user_message, net)
        result == StripQuotes(Strip(r.text))
        exc == IF r.none THEN "AttributeError" ELSE "none"
        caught == exc # "none" /\ ExceptException(exc)
    IN  [http |-> r.http, fallback |-> r.fallback,
         raised |-> IF exc # "none" /\ ~caught THEN exc ELSE "none",
         none |-> exc # "none" \/ result = <<"NONE">> \/ result = <<"none">>,
         text |-> IF exc # "none" THEN <<>> ELSE result]

\* suggest_actions: count is the length of the list returned.
suggest_actions(valid_key, user_message, net) ==
    LET r == CallFast(valid_key, "actions", user_message, net)
        s1 == Strip(r.text)
        fenced == Contains(s1, <<Fence>>)
        s2 == IF fenced THEN SplitFenceSecond(s1) ELSE s1
        s3 == IF fenced /\ StartsWith(s2, <<"json">>) THEN DropFirst(s2, 1) ELSE s2
        p == JsonLoads(Strip(s3))
        exc == IF r.none THEN "AttributeError"
               ELSE IF ~p.ok THEN "JSONDecodeError" ELSE "none"
        caught == exc # "none" /\ ExceptException(exc)
    IN  [http |-> r.http, fallback |-> r.fallback,
         raised |-> IF exc # "none" /\ ~caught THEN exc ELSE "none",
         count |-> IF exc = "none" /\ p.value.kind = "array" THEN p.value.items ELSE 0]

(***************************************************************************)
(* The memory table (SQLite), keyed by the hash of the content.            *)
(***************************************************************************)
Memory(content, memory_type, importance, user_id) ==
    [id |-> content, content |-> content, memory_type |-> memory_type,
     importance |-> importance, user_id |-> user_id]

\* user_id: str = "default" of the requests and of the service
DefaultUser == "default"

UserIds == {DefaultUser, "alice"}

\* importance: float = 0.8 of a request to /memory/store, in tenths
DefaultImportance == 8

\* What the /memory/store endpoint is sent here.
StoredContents == {MsgHi}

(***************************************************************************)
(* OpenMemoryService over SQLite (use_sdk is False: the openmemory package *)
(* is not installed).  access_count is written by retrieve and read by     *)
(* nothing, and is left out.                                               *)
(***************************************************************************)
MemGit == <<"g", "i", "t">>

MemGitStatus == <<"G", "i", "t", " ", "s", "t", "a", "t", "u", "s">>

MemStar == <<"*">>

\* the LIKE wildcard for one character, three times
MemAnyThree == <<"_", "_", "_">>

MemoryContents == {MemGit, MemGitStatus, MemStar}

MemoryQueries == MemoryContents \cup {MemAnyThree}

\* importance of a request, in tenths: MemoryCreateRequest sets no range
RequestImportances == {3, 12}

\* memory_type of a request to retrieve: None, or a type
TypeFilters == {"", "episodic"}

RetrieveLimits == {1, 2}

\* min_importance of a request to retrieve, in tenths
SalienceFloors == {0, 5}

\* hours between the call before and a call to retrieve
ElapsedHours == {0, 1}

\* SQL LIKE: % is any run of characters, _ is any one character
RECURSIVE Like(_, _)
Like(pattern, text) ==
    IF pattern = <<>> THEN text = <<>>
    ELSE IF pattern[1] = "%"
         THEN Like(Tail(pattern), text) \/ (text # <<>> /\ Like(pattern, Tail(text)))
    ELSE IF text = <<>> THEN FALSE
    ELSE IF pattern[1] = "_" THEN Like(Tail(pattern), Tail(text))
    ELSE pattern[1] = text[1] /\ Like(Tail(pattern), Tail(text))

\* Memory.content.ilike(f"%{query.lower()}%")
ILike(content, query) == Like(<<"%">> \o Lower(query) \o <<"%">>, Lower(content))

ILikeTable == [c \in MemoryContents \cup StoredContents, q \in MemoryQueries |-> ILike(c, q)]

\* the orders of a set of rows
Orders(rows) ==
    {s \in [1..Cardinality(rows) -> rows] : \A i, j \in DOMAIN s : i # j => s[i] # s[j]}

\* .limit(limit): SQLite takes a negative limit as no limit
Limit(s, limit) ==
    IF limit < 0 \/ limit >= Len(s) THEN s ELSE SubSeq(s, 1, limit)

RECURSIVE SelectIds(_, _)
SelectIds(ids, keep) ==
    IF ids = <<>> THEN <<>>
    ELSE IF ids[1] \in keep THEN <<ids[1]>> \o SelectIds(Tail(ids), keep)
    ELSE SelectIds(Tail(ids), keep)

RECURSIVE Reverse(_)
Reverse(s) == IF s = <<>> THEN <<>> ELSE Reverse(Tail(s)) \o <<s[1]>>

RowOf(rows, id) == CHOOSE m \in rows : m.id = id

\* the filters, were the floor on importance left out
Filtered_TypeOnly(rows, memory_type, min_salience) ==
    {m \in rows : memory_type # "" => m.memory_type = memory_type}

\* q: the filters on importance and on memory_type
Filtered(rows, memory_type, min_salience) ==
    {m \in rows : /\ m.importance >= min_salience
                  /\ (memory_type # "" => m.memory_type = memory_type)}

\* order_by(Memory.last_accessed.desc()).limit(limit)
Listing(rows, order, limit) ==
    LET ids == Reverse(SelectIds(order, {m.id : m \in rows}))
    IN  Limit([i \in DOMAIN ids |-> RowOf(rows, ids[i])], limit)

\* order_by(Memory.importance.desc()).limit(limit): rows of equal importance
\* come in an order SQL does not fix
Ranked(rows, limit) ==
    {Limit(s, limit) : s \in {t \in Orders(rows) :
        \A i, j \in DOMAIN t : i < j => t[i].importance >= t[j].importance}}

\* the rows retrieve may return
RetrieveResults(rows, order, query, memory_type, limit, min_salience) ==
    LET q == Filtered(rows, memory_type, min_salience)
    IN  IF query = MemStar
        THEN {Listing(q, order, limit)}
        ELSE Ranked({m \in q : ILikeTable[m.content, query]}, limit)

\* the dict returned for a row
ResultOf(m) ==
    [id |-> m.id, content |-> m.content, memory_type |-> m.memory_type,
     salience |-> m.importance, score |-> m.importance]

\* last_accessed = datetime.utcnow() for each row returned, in turn
Touch(order, results) ==
    LET ids == {results[i].id : i \in DOMAIN results}
    IN  SelectIds(order, {order[i] : i \in DOMAIN order} \ ids)
            \o [i \in DOMAIN results |-> results[i].id]

(***************************************************************************)
(* State.                                                                  *)
(***************************************************************************)
VARIABLES
    envKey,             \* os.environ["OPENROUTER_API_KEY"]
    procKey,            \* processor.api_key
    has_valid_api_key,  \* processor.has_valid_api_key
    authKey,            \* the key in processor.headers["Authorization"]
    cls,                \* the classification call last made since a key was saved
    memories,           \* the rows of the memories table
    context_preloaded,  \* _context_preloaded
    pc,                 \* where the /v1/chat/completions request in progress is
    req,                \* that request
    an,                 \* the analysis computed so far for it
    log,                \* the calls made for it, in order
    stages,             \* the stages analyze_and_respond went through for it
    orphans,            \* memory-service coroutines it created and never awaited
    result,             \* what analyze_and_respond returned
    resp,               \* the HTTP response
    pv,                 \* the /chat request with Instant Preview in progress
    recency,            \* the ids of the rows, from the oldest last_accessed to the newest
    mem,                \* the call last made to the memory service
    cl,                 \* the request the OpenRouter client is serving
    ss,                 \* the sessions: rows, tmux sessions, status files, last answer
    ws,                 \* the websocket manager: channel sets, deliveries
    ag,                 \* the sub-agents and their tasks
    registry                 \* the action registry and the last answer about it

credVars == <<envKey, procKey, has_valid_api_key, authKey>>

pipeVars == <<context_preloaded, pc, req, an, log, stages, orphans, result, resp>>

memVars == <<memories, recency, mem>>

coreVars == <<credVars, cls, memVars, cl, pipeVars, pv, registry>>

restVars == <<ss, ws, ag, registry>>

vars ==
    <<envKey, procKey, has_valid_api_key, authKey, cls, memories, context_preloaded,
      pc, req, an, log, stages, orphans, result, resp, pv, recency, mem, cl, ss, ws, ag, registry>>

(***************************************************************************)
(* The values of a request that is not in progress.                        *)
(***************************************************************************)
NoneText == <<"<None>">>

NoCall ==
    [op |-> "none", msg |-> <<>>, http |-> 0, fallback |-> FALSE, raised |-> "none",
     value |-> NoJson, none |-> FALSE, count |-> 0]

NoRequest == [msg |-> <<>>, quick_mode |-> FALSE, show_thinking |-> FALSE]

NoAnalysis ==
    [sentiment |-> NoJson, intent |-> NoJson, available |-> {}, suggested |-> 0]

NoResult ==
    [kind |-> "none", response |-> <<>>, model |-> "", usage |-> 0,
     thinking |-> FALSE, quick_mode |-> FALSE, has_analysis |-> FALSE]

NoResponse == [status |-> 0, content |-> <<>>, usage |-> 0, detail |-> "", analysis |-> FALSE]

\* A slot of the merged result: Python's None, or a dict with the content.
NoSlot == [present |-> FALSE, content |-> <<>>]

SlotOf(content) == [present |-> TRUE, content |-> content]

NoPreview ==
    [pc |-> "idle", caller |-> "none", mode |-> "none", issued |-> {},
     fast |-> Outcome("pending", <<>>), quality |-> Outcome("pending", <<>>),
     first |-> "none", merged |-> FALSE, preview |-> NoSlot, quality_slot |-> NoSlot,
     error |-> FALSE, raised |-> FALSE, status |-> 0, response |-> <<>>,
     preview_used |-> FALSE, gateway |-> 0]

NoMem ==
    [op |-> "none", query |-> <<>>, memory_type |-> "", limit |-> 0, min_salience |-> 0,
     hours |-> 0, user_id |-> "",
     raised |-> FALSE, status |-> 0, id |-> NoneText, results |-> <<>>, success |-> FALSE,
     reinforced |-> 0]

\* len(key) < 20 in Settings.validate_api_key
SettingsMinKeyLen == 20

\* Settings() validates: without it src.config does not import, and there is
\* no client
SettingsValid(k) == k.prefixed /\ k.len >= SettingsMinKeyLen

\* len(self.api_key) > 20 in OpenRouterClient.__init__
ClientMinKeyLen == 20

\* self.has_valid_api_key of the client; "your_api_key_here" has 17 characters
ClientKeyIsValid(k) == k.len > 0 /\ k.len > ClientMinKeyLen

NoClientCall(exists, valid) ==
    [exists |-> exists, has_valid_api_key |-> valid, op |-> "none", pc |-> "idle",
     posts |-> 0,
     chat_attempt |-> 0, fast_attempt |-> 0, failures |-> 0, last |-> "none",
     raised |-> "none"]

\* ---------------------------------------------------------------------------
\* Sessions: routes/sessions.py over services/tmux_executor.py.
\* ---------------------------------------------------------------------------

\* session_id = str(uuid.uuid4())[:8]
SessionIds == {"a1b2c3d4", "e5f6a7b8"}

\* what the wrapped command writes to /tmp/openaur-{session_id}.status
ExitCodes == {0, 1}

\* No row, no tmux session, no status file.
NoSession == [db |-> "none", tmux |-> "none", file |-> <<>>]

NoSessionAnswer == [op |-> "none", id |-> "none", code |-> 0, status |-> "none",
                    exit_code |-> <<>>, listed |-> {}]

NoSessions == [rows |-> [i \in SessionIds |-> NoSession], last |-> NoSessionAnswer]

\* ---------------------------------------------------------------------------
\* Dashboard websocket: routes/websocket.py over services/websocket_manager.py.
\* ---------------------------------------------------------------------------

\* the WebSocket objects of two clients
Sockets == {"w1", "w2"}

\* the keys of ConnectionManager.connections
Channels == {"memory", "heart", "agents", "sessions", "all"}

\* the channels the clients ask for
Subscriptions == {"memory", "heart", "all"}

\* the channel the services broadcast on (routes/memory.py: broadcast_memory_update)
BroadcastChannels == {"memory"}

\* the coroutines that may be inside ConnectionManager.broadcast at once
Broadcasts == {"b1", "b2"}

\* A coroutine that is not inside broadcast. late holds the sockets that had been
\* dropped when the broadcast started.
NoBroadcast == [pc |-> "idle", channel |-> "none", targets |-> {}, disconnected |-> {},
                sent |-> {}, late |-> {}]

\* net is the connection itself, handler is websocket_endpoint serving it, asked is
\* what the client has asked to receive, dropped holds the sockets that were
\* disconnected from the manager or whose send failed during a broadcast.
NoSockets ==
    [connections |-> [c \in Channels |-> {}],
     net |-> [w \in Sockets |-> "none"],
     handler |-> [w \in Sockets |-> "none"],
     asked |-> [w \in Sockets |-> {}],
     dropped |-> {},
     bc |-> [b \in Broadcasts |-> NoBroadcast]]

\* ---------------------------------------------------------------------------
\* Sub-agents: routes/agents.py over services/agents.py.
\* ---------------------------------------------------------------------------

\* session_id of the agents spawn_agent creates
AgentSessions == {"agent_deep_1", "agent_deep_2"}

\* No SubAgent was made for the session id. listed says that the agent is in
\* running_agents, task is the state of its AgentTask.
NoAgent == [listed |-> FALSE, state |-> "none", task |-> "none"]

NoAgentAnswer == [op |-> "none", session_id |-> "", status |-> 0]

NoAgents == [agents |-> [sid \in AgentSessions |-> NoAgent], last |-> NoAgentAnswer]

\* ---------------------------------------------------------------------------
\* The action registry: routes/actions.py and routes/ingest.py.
\* ---------------------------------------------------------------------------

\* request.binary
Binaries == {"git", "ls", "nosuchtool"}

\* the binaries shutil.which finds
OnPath == {"git", "ls"}

\* safety: int = 2, and one other level
SafetyLevels == {1, 2}

\* A binary without a row; a row is held as <<safety_level>>.
NoRow == <<>>

NoActionAnswer == [op |-> "none", binary |-> "", status |-> 0, result |-> ""]

NoActions == [rows |-> [b \in Binaries |-> NoRow], last |-> NoActionAnswer]

Init ==
    /\ envKey \in EnvKeys
    \* get_processor() at start-up: TwoStageProcessor.__init__ reads the environment
    /\ procKey = envKey
    /\ has_valid_api_key = KeyIsValid(envKey)
    /\ authKey = envKey
    /\ cls = NoCall
    /\ memories = {}
    /\ context_preloaded = FALSE
    /\ pc = "idle"
    /\ req = NoRequest
    /\ an = NoAnalysis
    /\ log = <<>>
    /\ stages = <<>>
    /\ orphans = {}
    /\ result = NoResult
    /\ resp = NoResponse
    /\ pv = NoPreview
    /\ recency = <<>>
    /\ mem = NoMem
    /\ ss = NoSessions
    /\ ws = NoSockets
    /\ ag = NoAgents
    /\ registry = NoActions
    \* get_openrouter_client() at start-up
    /\ cl = NoClientCall(SettingsValid(envKey), SettingsValid(envKey) /\ ClientKeyIsValid(envKey))

\* No request is in progress: the handlers here run one request at a time.
Idle == pc \in {"idle", "done"} /\ pv.pc \in {"idle", "done"}

(***************************************************************************)
(* Saving a key.                                                           *)
(***************************************************************************)
\* POST /v1/config/api-key (routes/openai.py): rejected when shorter than 20
\* characters; otherwise the environment and the processor take the key.
SaveApiKeyOpenai(k) ==
    /\ Idle
    /\ IF k.len = 0 \/ k.len < SaveKeyMinLen
       THEN UNCHANGED credVars
       ELSE /\ envKey' = k
            /\ procKey' = k
            /\ authKey' = k
            /\ has_valid_api_key' = TRUE
    /\ cls' = NoCall
    /\ UNCHANGED <<memVars, cl, pipeVars, pv>>
    /\ UNCHANGED restVars

\* POST /api/config/api-key (routes/config.py): rejected when shorter than 20
\* characters or not starting with sk-or-v1-; otherwise the environment takes it.
SaveApiKeyConfig(k) ==
    /\ Idle
    /\ IF k.len = 0 \/ k.len < SaveKeyMinLen \/ ~k.prefixed
       THEN UNCHANGED envKey
       ELSE envKey' = k
    /\ cls' = NoCall
    /\ UNCHANGED <<procKey, has_valid_api_key, authKey, memVars, cl, pipeVars, pv>>
    /\ UNCHANGED restVars

(***************************************************************************)
(* A classification call made on the processor.                            *)
(***************************************************************************)
ClassifyIntent(m, net) ==
    /\ Idle
    /\ LET r == analyze_intent(has_valid_api_key, m, net)
       IN  cls' = [NoCall EXCEPT !.op = "analyze_intent", !.msg = m, !.http = r.http,
                                 !.fallback = r.fallback, !.raised = r.raised,
                                 !.value = r.value]
    /\ UNCHANGED <<credVars, memVars, cl, pipeVars, pv>>
    /\ UNCHANGED restVars

ClassifySentiment(m, net) ==
    /\ Idle
    /\ LET r == analyze_sentiment(has_valid_api_key, m, net)
       IN  cls' = [NoCall EXCEPT !.op = "analyze_sentiment", !.msg = m, !.http = r.http,
                                 !.fallback = r.fallback, !.raised = r.raised,
                                 !.value = r.value]
    /\ UNCHANGED <<credVars, memVars, cl, pipeVars, pv>>
    /\ UNCHANGED restVars

ClassifyMemoryQuery(m, net) ==
    /\ Idle
    /\ LET r == extract_memory_query(has_valid_api_key, m, net)
       IN  cls' = [NoCall EXCEPT !.op = "extract_memory_query", !.msg = m,
                                 !.http = r.http, !.fallback = r.fallback,
                                 !.raised = r.raised, !.none = r.none]
    /\ UNCHANGED <<credVars, memVars, cl, pipeVars, pv>>
    /\ UNCHANGED restVars

ClassifyActions(m, net) ==
    /\ Idle
    /\ LET r == suggest_actions(has_valid_api_key, m, net)
       IN  cls' = [NoCall EXCEPT !.op = "suggest_actions", !.msg = m, !.http = r.http,
                                 !.fallback = r.fallback, !.raised = r.raised,
                                 !.count = r.count]
    /\ UNCHANGED <<credVars, memVars, cl, pipeVars, pv>>
    /\ UNCHANGED restVars

(***************************************************************************)
(* POST /memory/store: the store is awaited, and the row is inserted; a    *)
(* second row with the same id violates the primary key.                   *)
(***************************************************************************)
ServiceStore(op, content, memory_type, importance, user_id) ==
    IF \E m \in memories : m.id = content
    THEN /\ mem' = [NoMem EXCEPT !.op = op, !.query = content, !.raised = TRUE,
                                 !.status = 500]
         /\ UNCHANGED <<memories, recency>>
    ELSE /\ memories' = memories \cup {Memory(content, memory_type, importance, user_id)}
         /\ recency' = Append(recency, content)
         /\ mem' = [NoMem EXCEPT !.op = op, !.query = content, !.status = 200,
                                 !.user_id = user_id,
                                 !.id = content]

StoreMemory(content, memory_type, importance, user_id) ==
    /\ Idle
    /\ ServiceStore("store", content, memory_type, importance, user_id)
    /\ UNCHANGED <<credVars, cls, pipeVars, pv, cl>>
    /\ UNCHANGED restVars

\* POST /ingest/memory
IngestMemory(content) ==
    /\ Idle
    /\ ServiceStore("ingest", content, "manual", DefaultImportance, DefaultUser)
    /\ UNCHANGED <<credVars, cls, pipeVars, pv, cl>>
    /\ UNCHANGED restVars

\* reinforce, were it to rewrite the row and lose it
ServiceReinforce_DropsRow(rows, memory_id, amount) ==
    [rows |-> {m \in rows : m.id # memory_id}, success |-> TRUE]

\* OpenMemoryService.reinforce without the SDK: nothing is written
ServiceReinforce(rows, memory_id, amount) == [rows |-> rows, success |-> FALSE]

RECURSIVE ReinforceEach(_, _, _)
ReinforceEach(rows, ids, amount) ==
    IF ids = <<>> THEN rows
    ELSE ReinforceEach(ServiceReinforce(rows, ids[1], amount).rows, Tail(ids), amount)

\* for mem in memories[:3]
TopMatches == 3

\* reinforce(mem["id"], 0.05), in hundredths
RecallBoost == 5

\* POST /memory/retrieve, hours after the call before it
RetrieveMemories(query, memory_type, limit, min_importance, hours, user_id) ==
    /\ Idle
    /\ \E rs \in RetrieveResults(memories, recency, query, memory_type, limit,
                                  min_importance) :
           LET results == [i \in DOMAIN rs |-> ResultOf(rs[i])]
               top == [i \in DOMAIN Limit(results, TopMatches) |-> results[i].id]
           IN  /\ recency' = Touch(recency, results)
               /\ memories' = ReinforceEach(memories, top, RecallBoost)
               /\ mem' = [NoMem EXCEPT !.op = "retrieve", !.query = query,
                                       !.memory_type = memory_type, !.limit = limit, !.min_salience = min_importance,
                                       !.hours = hours, !.status = 200,
                                       !.user_id = user_id,
                                       !.results = results, !.reinforced = Len(top)]
    /\ UNCHANGED <<credVars, cls, pipeVars, pv, cl>>
    /\ UNCHANGED restVars

\* amount of a request to reinforce, in hundredths
ReinforceAmounts == {10}

\* POST /memory/reinforce
ReinforceMemory(memory_id, amount) ==
    /\ Idle
    /\ LET r == ServiceReinforce(memories, memory_id, amount)
       IN  /\ memories' = r.rows
           /\ mem' = [NoMem EXCEPT !.op = "reinforce", !.query = memory_id,
                                   !.status = 200, !.success = r.success,
                                   !.reinforced = 1]
    /\ UNCHANGED <<credVars, cls, pipeVars, pv, cl, recency>>
    /\ UNCHANGED restVars

\* min_importance=0.3 of get_relevant_context, in tenths
ContextFloor == 3

\* MemoryManager.get_relevant_context: retrieve takes no min_importance, and
\* the call raises TypeError before a coroutine is made
GetRelevantContext(query, limit) ==
    /\ Idle
    /\ mem' = [NoMem EXCEPT !.op = "get_relevant_context", !.query = query,
                            !.limit = limit, !.min_salience = ContextFloor,
                            !.raised = TRUE]
    /\ UNCHANGED <<credVars, cls, pipeVars, pv, cl, memories, recency>>
    /\ UNCHANGED restVars

\* DELETE /memory/{memory_id}: OpenMemoryService has no delete, and the
\* AttributeError becomes a 500
DeleteMemory(memory_id) ==
    /\ Idle
    /\ mem' = [NoMem EXCEPT !.op = "delete", !.query = memory_id, !.raised = TRUE,
                            !.status = 500]
    /\ UNCHANGED <<credVars, cls, pipeVars, pv, cl, memories, recency>>
    /\ UNCHANGED restVars

(***************************************************************************)
(* POST /v1/chat/completions: openai_chat and analyze_and_respond.  The    *)
(* handler runs from one await on a model call to the next.                *)
(***************************************************************************)
ApiKeyPrefix == <<"s","k","-","o","r","-","v","1","-">>

HexDigits ==
    {"a", "b", "c", "d", "e", "f", "0", "1", "2", "3", "4", "5", "6", "7", "8", "9"}

RECURSIVE HexRun(_, _)
HexRun(s, i) == IF i <= Len(s) /\ s[i] \in HexDigits THEN 1 + HexRun(s, i + 1) ELSE 0

\* re.search(r"(sk-or-v1-[a-f0-9]+)", msg_stripped): the length of the key
\* matched, 0 when there is no match.
MatchedKeyLen(user_message) ==
    LET s == Strip(user_message)
        n == Len(ApiKeyPrefix)
        starts == {i \in 1..Len(s) :
                      /\ i + n - 1 <= Len(s)
                      /\ SubSeq(s, i, i + n - 1) = ApiKeyPrefix
                      /\ HexRun(s, i + n) > 0}
    IN  IF starts = {} THEN 0
        ELSE n + HexRun(s, n + CHOOSE i \in starts : \A j \in starts : i <= j)

\* len(api_key) > 50
PastedKeyMinLen == 50

PastedKey(len) == Key("pasted", len, FALSE, TRUE, TRUE)

\* The canned reply of quick mode.
QuickResponse(user_message) ==
    LET msg_lower == Lower(user_message)
    IN  IF \E g \in {<<"h","i">>, <<"h","e","l","l","o">>, <<"h","e","y">>,
                     <<"h","o","w","d","y">>} : Contains(msg_lower, g)
        THEN <<"Hello! I'm OpenAura">>
        ELSE IF Contains(msg_lower, <<"h","o","w"," ","a","r","e"," ","y","o","u">>)
        THEN <<"I'm operating at full capacity!">>
        ELSE IF \/ Contains(msg_lower, <<"s","t","a","t","u","s">>)
                \/ Contains(msg_lower, <<"h","e","a","l","t","h">>)
        THEN <<"All systems are healthy!">>
        ELSE IF \/ Contains(msg_lower,
                       <<"w","h","a","t"," ","c","a","n"," ","y","o","u"," ","d","o">>)
                \/ Contains(msg_lower, <<"h","e","l","p">>)
        THEN <<"I can help you with:">>
        ELSE IF Contains(msg_lower, <<"t","h","a","n","k">>)
        THEN <<"You're welcome!">>
        ELSE <<"I understand.">>

\* The key matched in, and the canned reply to, every message of the model.
MatchedKeyLenTable == [m \in UserMessages |-> MatchedKeyLen(m)]

QuickResponseTable == [m \in UserMessages |-> QuickResponse(m)]

\* A variant with the test of is_simple inverted.
UseQuickMode_NotSimple(use_quick_mode, is_simple) == use_quick_mode /\ ~is_simple

\* if use_quick_mode and is_simple
UseQuickMode(use_quick_mode, is_simple) == use_quick_mode /\ is_simple

\* A variant that calls the quality model before the analysis.
FullPathEntry_QualityFirst == "quality"

\* Where the full path starts: engine.analyze, whose first await is the
\* sentiment call; get_quality_response follows it.
FullPathEntry == "sentiment"

\* A variant that swallows the exception and returns what was computed.
ErrorResponse_Partial(exc) ==
    [status |-> 200, content |-> <<>>, usage |-> 0, detail |-> exc, analysis |-> TRUE]

\* except Exception as e: raise HTTPException(status_code=500, detail=str(e))
ErrorResponse(exc) ==
    [status |-> 500, content |-> <<>>, usage |-> 0, detail |-> exc, analysis |-> FALSE]

OkResponse(content, usage) ==
    [status |-> 200, content |-> content, usage |-> usage, detail |-> "",
     analysis |-> FALSE]

\* preload_openaura_context: the store coroutines it creates (it awaits none)
PreloadCoroutines == {[op |-> "store", content |-> <<"openaur context">>,
                       memory_type |-> "system"]}

Coroutine(op, content, memory_type) ==
    [op |-> op, content |-> content, memory_type |-> memory_type]

\* The exception leaves analyze_and_respond, whose locals are dropped.
Fail(exc) ==
    /\ pc' = "done"
    /\ an' = NoAnalysis
    /\ stages' = Append(stages, "error")
    /\ result' = NoResult
    /\ resp' = ErrorResponse(exc)

OpenaiChat(m, quick_mode, show_thinking) ==
    /\ Idle
    /\ context_preloaded' = TRUE
    /\ req' = [msg |-> m, quick_mode |-> quick_mode, show_thinking |-> show_thinking]
    /\ an' = NoAnalysis
    /\ log' = <<>>
    /\ orphans' = IF context_preloaded THEN {} ELSE PreloadCoroutines
    /\ UNCHANGED <<cls, memVars, cl, pv>>
    /\ IF m = <<>>
       THEN \* raise HTTPException(status_code=400), inside the try
            /\ pc' = "done"
            /\ stages' = <<>>
            /\ result' = NoResult
            /\ resp' = ErrorResponse("HTTPException")
            /\ UNCHANGED credVars
       ELSE IF ~KeyIsValid(envKey)
       THEN \* the setup replies: analyze_and_respond is not called
            /\ pc' = "done"
            /\ stages' = <<>>
            /\ result' = NoResult
            /\ IF MatchedKeyLenTable[m] > PastedKeyMinLen
               THEN /\ envKey' = PastedKey(MatchedKeyLenTable[m])
                    /\ procKey' = PastedKey(MatchedKeyLenTable[m])
                    /\ authKey' = PastedKey(MatchedKeyLenTable[m])
                    /\ has_valid_api_key' = TRUE
                    /\ resp' = OkResponse(<<"API key saved!">>, 0)
               ELSE /\ resp' = OkResponse(<<"OpenRouter API Key Required">>, 0)
                    /\ UNCHANGED credVars
       ELSE IF UseQuickMode(quick_mode, IsSimpleTable[m])
       THEN /\ pc' = "done"
            /\ stages' = <<"received">>
            /\ result' = [kind |-> "quick", response |-> QuickResponseTable[m],
                          model |-> "openaura/heart", usage |-> 0,
                          thinking |-> show_thinking, quick_mode |-> TRUE,
                          has_analysis |-> TRUE]
            /\ resp' = OkResponse(
                           IF show_thinking
                           THEN <<"Quick mode - simple query detected">>
                                    \o QuickResponseTable[m]
                           ELSE QuickResponseTable[m], 0)
            /\ UNCHANGED credVars
       ELSE /\ pc' = FullPathEntry
            /\ stages' = <<"received">>
            /\ result' = NoResult
            /\ resp' = NoResponse
            /\ UNCHANGED credVars
    /\ UNCHANGED restVars

\* analyze: sentiment = await sentiment_task
SentimentReturns(net) ==
    /\ pc = "sentiment"
    /\ LET r == analyze_sentiment(has_valid_api_key, req.msg, net)
       IN  /\ an' = [an EXCEPT !.sentiment = r.value]
           /\ log' = log \o (IF r.http > 0 THEN <<"fast_http">> ELSE <<>>)
                         \o <<"analyze_sentiment">>
    /\ pc' = "intent"
    /\ UNCHANGED <<credVars, cls, memVars, cl, context_preloaded, req, stages, orphans,
                   result, resp, pv>>
    /\ UNCHANGED restVars

\* The tools the action registry holds a manifest for.
RegistryStates == {{}, {"git"}}

\* analyze: intent = await intent_task, then _get_available_tools
IntentReturns(net, registered) ==
    /\ pc = "intent"
    /\ LET r == analyze_intent(has_valid_api_key, req.msg, net)
           exc == IF r.value.kind # "object" THEN "AttributeError"
                  ELSE IF "tools_mentioned" \in r.value.keys /\ ~r.value.typed
                  THEN "TypeError" ELSE "none"
       IN  /\ log' = log \o (IF r.http > 0 THEN <<"fast_http">> ELSE <<>>)
                         \o <<"analyze_intent">>
           /\ IF exc # "none"
              THEN Fail(exc)
              ELSE /\ an' = [an EXCEPT !.intent = r.value,
                                       !.available = IF r.value.needs_action
                                                     THEN registered ELSE {}]
                   /\ pc' = IF r.value.needs_action THEN "suggest" ELSE "memq"
                   /\ stages' = Append(stages, "classified")
                   /\ UNCHANGED <<result, resp>>
    /\ UNCHANGED <<credVars, cls, memVars, cl, context_preloaded, req, orphans, pv>>
    /\ UNCHANGED restVars

\* analyze: _suggest_actions
SuggestReturns(net) ==
    /\ pc = "suggest"
    /\ LET r == suggest_actions(has_valid_api_key, req.msg, net)
       IN  /\ an' = [an EXCEPT !.suggested = r.count]
           /\ log' = log \o (IF r.http > 0 THEN <<"fast_http">> ELSE <<>>)
                         \o <<"suggest_actions">>
    /\ pc' = "memq"
    /\ UNCHANGED <<credVars, cls, memVars, cl, context_preloaded, req, stages, orphans,
                   result, resp, pv>>
    /\ UNCHANGED restVars

\* analyze: extract_memory_query, the memory lookup (memory.retrieve is a
\* coroutine function called without await: the call makes a coroutine object,
\* and iterating it is a TypeError), _build_thinking_summary; then
\* get_quality_response: _build_quality_prompt and the call of the quality model.
MemoryQueryReturns(net) ==
    /\ pc = "memq"
    /\ LET r == extract_memory_query(has_valid_api_key, req.msg, net)
           lookup == ~r.none /\ Len(r.text) > 0
           exc == IF lookup THEN "TypeError"
                  ELSE IF an.sentiment.kind # "object" THEN "AttributeError"
                  ELSE IF "urgency" \in an.sentiment.keys /\ ~an.sentiment.typed
                  THEN "ValueError" ELSE "none"
           called == log \o (IF r.http > 0 THEN <<"fast_http">> ELSE <<>>)
                         \o <<"extract_memory_query">>
       IN  /\ orphans' = IF lookup
                         THEN orphans \cup {Coroutine("retrieve", r.text, "")}
                         ELSE orphans
           /\ IF exc # "none"
              THEN /\ Fail(exc)
                   /\ log' = called
              ELSE /\ pc' = "quality"
                   /\ UNCHANGED an
                   /\ stages' = Append(stages, "context_built")
                   /\ log' = called \o <<"build_quality_prompt", "quality_http">>
                   /\ UNCHANGED <<result, resp>>
    /\ UNCHANGED <<credVars, cls, memVars, cl, context_preloaded, req, pv>>
    /\ UNCHANGED restVars

QOutcome(kind, text, usage) == [kind |-> kind, text |-> text, usage |-> usage]

QualityContents == {<<"answer">>, <<>>, NoneText}

\* The quality call raised or gave a status other than 200 or a body without
\* choices[0].message.content; or it gave a content and the total_tokens of its
\* usage block (0 when the block is missing).
QualityOutcomes ==
    {QOutcome(k, <<>>, 0) : k \in {"exception", "non200", "badbody"}}
        \cup {QOutcome("ok", c, 57) : c \in QualityContents}
        \cup {QOutcome("ok", <<"answer">>, 0)}

\* _store_interaction: memory.store is a coroutine function called without
\* await; each call makes a coroutine object that never runs.
StoreInteraction(user_message, assistant_response, analysis) ==
    {Coroutine("store", user_message, "user_query"),
     Coroutine("store", assistant_response, "assistant_response")}
        \cup {Coroutine("store", <<"User query involved tool: ", tool>>,
                        "action_learning") : tool \in analysis.available}

\* get_quality_response after the quality call returns: on a failure the
\* exception leaves it; otherwise _store_interaction, then the return.
AfterQuality(ok) ==
    IF ok THEN <<"quality_ok", "store_interaction">> ELSE <<"quality_failed">>

QualityReturns(q) ==
    /\ pc = "quality"
    /\ log' = log \o AfterQuality(q.kind = "ok")
    /\ IF q.kind # "ok"
       THEN /\ Fail("Exception")
            /\ UNCHANGED orphans
       ELSE LET content == IF req.show_thinking
                           THEN <<"Analysis">> \o q.text ELSE q.text
            IN  /\ orphans' = orphans \cup StoreInteraction(req.msg, q.text, an)
                /\ pc' = "done"
                /\ an' = NoAnalysis
                /\ result' = [kind |-> "full", response |-> q.text,
                              model |-> "openrouter/auto", usage |-> q.usage,
                              thinking |-> req.show_thinking, quick_mode |-> FALSE,
                              has_analysis |-> TRUE]
                /\ IF content = NoneText
                   THEN \* OpenAIMessage(content=None): a ValidationError
                        /\ stages' = stages \o <<"responded", "stored", "error">>
                        /\ resp' = ErrorResponse("ValidationError")
                   ELSE /\ stages' = stages \o <<"responded", "stored">>
                        /\ resp' = OkResponse(content, q.usage)
    /\ UNCHANGED <<credVars, cls, memVars, cl, context_preloaded, req, pv>>
    /\ UNCHANGED restVars

(***************************************************************************)
(* Instant Preview: chat_with_preview (TwoStageProcessor and               *)
(* OpenRouterClient) and the /chat handler that calls it.                  *)
(***************************************************************************)
PreviewContents == {<<"text A">>, <<"text B">>, <<>>, NoneText}

\* One model call of the pair: it raised; a status other than 200; status 200 and
\* a body without choices[0].message.content; status 200 and a content.
PreviewOutcomes ==
    {Outcome(k, <<>>) : k \in {"exception", "non200", "badbody"}}
        \cup {Outcome("ok", c) : c \in PreviewContents}

\* A variant giving the results in the order of completion, as
\* asyncio.as_completed would.
Gather_CompletionOrder(fast, quality, first) ==
    IF first = "quality" THEN <<quality, fast>> ELSE <<fast, quality>>

\* asyncio.gather(fast_task, quality_task, return_exceptions=True): the results
\* in the order of the arguments, whichever completed first.
Gather(fast, quality, first) == <<fast, quality>>

\* The parsing of one result: a dict when it is a 200 reply with a content,
\* None otherwise (an exception instance, another status, a parse error).
ParseResult(o) == IF o.kind = "ok" THEN SlotOf(o.text) ELSE NoSlot

\* A variant without the promotion of the preview.
MergeSlots_NoPromotion(results) ==
    [preview |-> ParseResult(results[1]), quality |-> ParseResult(results[2])]

\* The merge: if quality failed but preview succeeded, use preview as quality.
MergeSlots(results) ==
    LET preview == ParseResult(results[1])
        quality == ParseResult(results[2])
    IN  IF ~quality.present /\ preview.present
        THEN [preview |-> NoSlot, quality |-> preview]
        ELSE [preview |-> preview, quality |-> quality]

\* bool(content) of a str or None
Truthy(content) == content # <<>> /\ content # NoneText

\* (result.get(slot) or {}).get("content", "")
SlotContent(slot) == IF slot.present THEN slot.content ELSE <<>>

\* routes/chat.py after chat_with_preview returned without an error field: the
\* response and preview_used, or the fall-back to gateway.chat.
ChatCombine(preview_slot, quality_slot) ==
    LET p0 == SlotContent(preview_slot)
        q0 == SlotContent(quality_slot)
        promote == ~Truthy(q0) /\ Truthy(p0)
        quality_content == IF promote THEN p0 ELSE q0
        preview_content == IF promote THEN <<>> ELSE p0
    IN  IF Truthy(preview_content) /\ Truthy(quality_content)
           /\ preview_content # quality_content
        THEN [fallback |-> FALSE, preview_used |-> TRUE,
              response |-> <<"*">> \o preview_content \o <<"*", "---">>
                               \o quality_content]
        ELSE IF Truthy(quality_content)
        THEN [fallback |-> FALSE, preview_used |-> TRUE, response |-> quality_content]
        ELSE IF Truthy(preview_content)
        THEN [fallback |-> FALSE, preview_used |-> TRUE, response |-> preview_content]
        ELSE [fallback |-> TRUE, preview_used |-> FALSE, response |-> <<>>]

\* POST /chat
Chat(instant_preview) ==
    /\ Idle
    /\ pv' = IF instant_preview
             THEN [NoPreview EXCEPT !.pc = "gather", !.caller = "chat",
                                    !.mode = "preview", !.issued = {"fast", "quality"}]
             ELSE [NoPreview EXCEPT !.pc = "gateway", !.caller = "chat",
                                    !.mode = "standard", !.gateway = 1]
    /\ UNCHANGED <<credVars, cls, memVars, cl, pipeVars>>
    /\ UNCHANGED restVars

\* TwoStageProcessor.chat_with_preview called with any context: building the
\* messages raises on a context of another shape, and the except branch returns.
ProcessorChatWithPreview(context_ok) ==
    /\ Idle
    /\ pv' = IF context_ok
             THEN [NoPreview EXCEPT !.pc = "gather", !.caller = "processor",
                                    !.mode = "preview", !.issued = {"fast", "quality"}]
             ELSE [NoPreview EXCEPT !.pc = "done", !.caller = "processor",
                                    !.mode = "preview", !.merged = TRUE,
                                    !.error = TRUE]
    /\ UNCHANGED <<credVars, cls, memVars, cl, pipeVars>>
    /\ UNCHANGED restVars

\* OpenRouterClient.chat_with_preview
ClientChatWithPreview(instant_preview) ==
    /\ Idle
    /\ pv' = IF instant_preview
             THEN [NoPreview EXCEPT !.pc = "gather", !.caller = "client",
                                    !.mode = "preview", !.issued = {"fast", "quality"}]
             ELSE [NoPreview EXCEPT !.pc = "quality_only", !.caller = "client",
                                    !.mode = "standard", !.issued = {"quality"}]
    /\ UNCHANGED <<credVars, cls, memVars, cl, pipeVars>>
    /\ UNCHANGED restVars

FastCompletes(o) ==
    /\ pv.pc = "gather"
    /\ pv.fast.kind = "pending"
    /\ pv' = [pv EXCEPT !.fast = o,
                        !.first = IF pv.first = "none" THEN "fast" ELSE pv.first]
    /\ UNCHANGED <<credVars, cls, memVars, cl, pipeVars>>
    /\ UNCHANGED restVars

QualityCompletes(o) ==
    /\ pv.pc = "gather"
    /\ pv.quality.kind = "pending"
    /\ pv' = [pv EXCEPT !.quality = o,
                        !.first = IF pv.first = "none" THEN "quality" ELSE pv.first]
    /\ UNCHANGED <<credVars, cls, memVars, cl, pipeVars>>
    /\ UNCHANGED restVars

\* The gather returns once both calls have completed or failed; the results are
\* parsed and merged, and the /chat handler goes on with the merged result.
MergeResults ==
    /\ pv.pc = "gather"
    /\ pv.fast.kind # "pending"
    /\ pv.quality.kind # "pending"
    /\ LET m == MergeSlots(Gather(pv.fast, pv.quality, pv.first))
           c == ChatCombine(m.preview, m.quality)
           merged == [pv EXCEPT !.merged = TRUE, !.preview = m.preview,
                                !.quality_slot = m.quality]
       IN  pv' = IF pv.caller # "chat"
                 THEN [merged EXCEPT !.pc = "done"]
                 ELSE IF c.fallback
                 THEN [merged EXCEPT !.pc = "gateway", !.gateway = 1]
                 ELSE [merged EXCEPT !.pc = "done", !.status = 200,
                                     !.response = c.response,
                                     !.preview_used = c.preview_used]
    /\ UNCHANGED <<credVars, cls, memVars, cl, pipeVars>>
    /\ UNCHANGED restVars

\* OpenRouterClient with the preview disabled: quality = await self.chat(...)
QualityOnlyReturns(o) ==
    /\ pv.pc = "quality_only"
    /\ pv' = IF o.kind = "ok"
             THEN [pv EXCEPT !.pc = "done", !.quality = o, !.merged = TRUE,
                             !.quality_slot = SlotOf(o.text)]
             ELSE [pv EXCEPT !.pc = "done", !.quality = o, !.raised = TRUE]
    /\ UNCHANGED <<credVars, cls, memVars, cl, pipeVars>>
    /\ UNCHANGED restVars

\* gateway.chat returns or raises; a content of None fails ChatResponse.
GatewayReturns(o) ==
    /\ pv.pc = "gateway"
    /\ pv' = IF o.kind = "ok" /\ o.text # NoneText
             THEN [pv EXCEPT !.pc = "done", !.status = 200, !.response = o.text,
                             !.preview_used = FALSE]
             ELSE [pv EXCEPT !.pc = "done", !.status = 500]
    /\ UNCHANGED <<credVars, cls, memVars, cl, pipeVars>>
    /\ UNCHANGED restVars

GatewayOutcomes ==
    {Outcome(k, <<>>) : k \in {"exception", "non200", "badbody"}}
        \cup {Outcome("ok", c) : c \in {<<"gateway text">>, <<>>, NoneText}}

(***************************************************************************)
(* Specifications.  SpecClassify: the keys saved and the classification    *)
(* calls made on the processor.  SpecPipeline: /v1/chat/completions        *)
(* requests, one at a time, and /memory/store.  SpecPreview: requests with *)
(* Instant Preview.                                                        *)
(***************************************************************************)
\* the messages classified between the savings of keys
ClassifyMessages == {MsgHi, MsgInstall, MsgRecall}

NextClassify ==
    \/ \E k \in RequestKeys : SaveApiKeyOpenai(k)
    \/ \E k \in RequestKeys : SaveApiKeyConfig(k)
    \/ \E m \in ClassifyMessages, net \in FastOutcomes : ClassifyIntent(m, net)
    \/ \E m \in ClassifyMessages, net \in FastOutcomes : ClassifySentiment(m, net)
    \/ \E m \in ClassifyMessages, net \in FastOutcomes : ClassifyMemoryQuery(m, net)
    \/ \E m \in ClassifyMessages, net \in FastOutcomes : ClassifyActions(m, net)

SpecClassify == Init /\ [][NextClassify]_vars

\* analyze_intent on every message, with the key the process started with
NextFallback == \E m \in Messages, net \in FastOutcomes : ClassifyIntent(m, net)

SpecFallback == Init /\ [][NextFallback]_vars

\* The replies of the fast model drawn at each step of a request.
StepOutcomes(texts) ==
    {Outcome(k, <<>>) : k \in {"exception", "null_content"}}
        \cup {Outcome("ok", t) : t \in texts}

SentimentTexts ==
    {<<"{sentiment}">>, <<Fence, "\n", "{sentiment,urgency:str}", "\n", Fence>>, <<"42">>}

IntentTexts ==
    {<<"{chat}">>, <<Fence, "json", "\n", "{action}", "\n", Fence>>,
     <<"{action,tools:str}">>, <<"[]">>}

SuggestTexts == {<<Fence, "json", "[suggestion]", Fence>>, <<"sorry">>}

MemoryQueryTexts == {<<"NONE">>, <<"command">>}

NextPipeline ==
    \/ \E c \in StoredContents : StoreMemory(c, "episodic", DefaultImportance, DefaultUser)
    \/ \E m \in ChatMessages, q \in BOOLEAN, t \in BOOLEAN : OpenaiChat(m, q, t)
    \/ \E net \in StepOutcomes(SentimentTexts) : SentimentReturns(net)
    \/ \E net \in StepOutcomes(IntentTexts), reg \in RegistryStates :
           IntentReturns(net, reg)
    \/ \E net \in StepOutcomes(SuggestTexts) : SuggestReturns(net)
    \/ \E net \in StepOutcomes(MemoryQueryTexts) : MemoryQueryReturns(net)
    \/ \E q \in QualityOutcomes : QualityReturns(q)

SpecPipeline == Init /\ [][NextPipeline]_vars

NextPreview ==
    \/ \E i \in BOOLEAN : Chat(i)
    \/ \E ok \in BOOLEAN : ProcessorChatWithPreview(ok)
    \/ \E i \in BOOLEAN : ClientChatWithPreview(i)
    \/ \E o \in PreviewOutcomes : FastCompletes(o)
    \/ \E o \in PreviewOutcomes : QualityCompletes(o)
    \/ MergeResults
    \/ \E o \in PreviewOutcomes : QualityOnlyReturns(o)
    \/ \E o \in GatewayOutcomes : GatewayReturns(o)

SpecPreview == Init /\ [][NextPreview]_vars

(***************************************************************************)
(* Properties of the classification operations (SpecClassify).             *)
(***************************************************************************)
IntentSchema == {"intent", "needs_action", "tools_mentioned", "confidence"}

\* C1: for every message and every outcome of the fast-model call,
\* analyze_intent and analyze_sentiment return without raising, and the value
\* returned is a dictionary carrying the fields of its own schema.
C1_ClassifierTotalWithSchema ==
    cls.op \in {"analyze_intent", "analyze_sentiment"}
        => /\ cls.raised = "none"
           /\ cls.value.kind = "object"
           /\ cls.op = "analyze_intent" => IntentSchema \subseteq cls.value.keys
           /\ cls.op = "analyze_sentiment" => SentimentKeys \subseteq cls.value.keys

\* C2: while the processor holds no valid API key (absent, the placeholder, or
\* 20 characters or fewer), no classification operation issues an HTTP
\* request: each result comes from the offline keyword fallback.
C2_NoValidKeyNoHttp ==
    cls.op # "none" /\ ~KeyIsValid(procKey) => cls.http = 0 /\ cls.fallback

(***************************************************************************)
(* Properties of /v1/chat/completions (SpecPipeline).                      *)
(***************************************************************************)
\* The rows of the memories table that _store_interaction writes.
InteractionRows ==
    {r \in memories :
        r.memory_type \in {"user_query", "assistant_response", "action_learning"}}

\* The coroutines of memory-service calls made by analyze_and_respond.
EngineCoroutines == orphans \ PreloadCoroutines

InLog(e) == \E i \in 1..Len(log) : log[i] = e

Before(a, b) ==
    \A i \in 1..Len(log) : log[i] = b => \E j \in 1..(i - 1) : log[j] = a

StageOrder == <<"received", "classified", "context_built", "responded", "stored">>

\* The stages gone through, without the closing error state.
StagesReached ==
    IF stages # <<>> /\ stages[Len(stages)] = "error"
    THEN SubSeq(stages, 1, Len(stages) - 1) ELSE stages

\* C3: once analyze_and_respond is called with quick mode requested and a
\* message for which is_simple_query is true, it has returned the canned
\* response, marked quick_mode, with zero token usage, and neither the fast
\* model, nor the quality model, nor the memory store was called.
C3_QuickModeShortCircuit ==
    stages # <<>> /\ req.quick_mode /\ is_simple_query(req.msg)
        => /\ pc = "done"
           /\ stages = <<"received">>
           /\ result.kind = "quick"
           /\ result.quick_mode
           /\ result.usage = 0
           /\ result.response = QuickResponse(req.msg)
           /\ resp.status = 200 /\ resp.usage = 0
           /\ log = <<>>
           /\ EngineCoroutines = {}
           /\ InteractionRows = {}

C3_Witness ==
    /\ pc = "done"
    /\ req.quick_mode /\ req.msg = MsgRunGit
    /\ result.kind = "quick" /\ result.quick_mode
    /\ KeyIsValid(envKey)

\* C4: on the full path the stages occur in the order received, classified,
\* context_built, responded, stored; the quality model is called only after
\* sentiment and intent classification have both returned; and the
\* interaction is handed to the memory store only after the quality model
\* has returned successfully.
C4_FullPathOrder ==
    /\ Len(StagesReached) <= Len(StageOrder)
    /\ StagesReached = SubSeq(StageOrder, 1, Len(StagesReached))
    /\ \A q \in {"quality_http", "quality_ok", "quality_failed"} :
           Before("analyze_sentiment", q) /\ Before("analyze_intent", q)
    /\ pc = "quality" => InLog("analyze_sentiment") /\ InLog("analyze_intent")
    /\ Before("quality_http", "quality_ok")
    /\ Before("quality_ok", "store_interaction")
    /\ \A c \in EngineCoroutines : c.op = "store" => InLog("quality_ok")
    /\ InteractionRows # {} => InLog("quality_ok")

C4_Witness ==
    /\ pc = "done"
    /\ stages = StageOrder
    /\ InLog("store_interaction")
    /\ resp.status = 200

\* C5: every request that returns successfully on the full path leaves in the
\* memory store a user_query record holding the user's message and an
\* assistant_response record holding the response content.
C5_FullPathStored ==
    pc = "done" /\ result.kind = "full" /\ resp.status = 200
        => /\ \E r \in memories :
                  r.memory_type = "user_query" /\ r.content = req.msg
           /\ \E r \in memories :
                  r.memory_type = "assistant_response" /\ r.content = result.response

\* C6: if a stage of the full path raises, the request ends in the error
\* state: the caller receives status 500, no analysis is returned, and no
\* memory record of the interaction is written.
C6_StageRaisesError ==
    pc = "done" /\ stages # <<>> /\ result.kind = "none"
        => /\ stages[Len(stages)] = "error"
           /\ resp.status = 500
           /\ ~resp.analysis
           /\ resp.content = <<>>
           /\ \A c \in EngineCoroutines : c.op # "store"
           /\ InteractionRows = {}

C6_Witness ==
    /\ pc = "done"
    /\ stages = <<"received", "classified", "context_built", "error">>
    /\ InLog("quality_failed")
    /\ resp.status = 500

(***************************************************************************)
(* Properties of Instant Preview (SpecPreview).                            *)
(***************************************************************************)
\* The call raised, or gave a status other than 200, or an unparsable body.
Failed(o) == o.kind \in {"exception", "non200", "badbody"}

Returned == pv.mode = "preview" /\ pv.merged /\ ~pv.error

\* C7 as stated: in preview mode, if the quality call fails and the fast call
\* succeeds, chat_with_preview returns the fast model's content in the quality
\* slot with preview None, and /chat returns exactly that content.
C7_PromotedAndReturned ==
    Returned /\ Failed(pv.quality) /\ pv.fast.kind = "ok"
        => /\ pv.quality_slot = SlotOf(pv.fast.text)
           /\ pv.preview = NoSlot
           /\ pv.caller = "chat" /\ pv.pc = "done"
                  => pv.status = 200 /\ pv.response = pv.fast.text

\* C7, amended: in preview mode, if the quality call fails and the fast call
\* succeeds, chat_with_preview returns the fast model's content in the quality
\* slot with preview None; and when that content is a non-empty string, /chat
\* returns exactly that content, without calling the gateway.
C7_PromotedAndReturnedIfNonEmpty ==
    Returned /\ Failed(pv.quality) /\ pv.fast.kind = "ok"
        => /\ pv.quality_slot = SlotOf(pv.fast.text)
           /\ pv.preview = NoSlot
           /\ pv.caller = "chat" /\ Truthy(pv.fast.text)
                  => /\ pv.pc = "done"
                     /\ pv.status = 200
                     /\ pv.response = pv.fast.text
                     /\ pv.gateway = 0

C7_Witness ==
    /\ pv.caller = "chat" /\ pv.pc = "done"
    /\ pv.quality.kind = "non200"
    /\ pv.fast = Outcome("ok", <<"text A">>)
    /\ pv.response = <<"text A">>

\* C8: in preview mode, if both calls fail, chat_with_preview returns normally
\* and its result carries an error field, with preview and quality both None.
C8_BothFailErrorField ==
    (/\ pv.mode = "preview" /\ pv.caller \in {"processor", "client"}
     /\ pv.pc = "done" /\ Failed(pv.fast) /\ Failed(pv.quality))
        => /\ ~pv.raised
           /\ pv.error
           /\ pv.preview = NoSlot
           /\ pv.quality_slot = NoSlot

\* C9: in preview mode, if the fast call throws and the quality call succeeds,
\* the response of /chat is the quality model's content exactly and
\* preview_used is False.
C9_QualityAloneNoPreviewUsed ==
    (/\ pv.mode = "preview" /\ pv.caller = "chat" /\ pv.pc = "done"
     /\ pv.fast.kind = "exception"
     /\ pv.quality.kind = "ok" /\ Truthy(pv.quality.text))
        => /\ pv.status = 200
           /\ pv.response = pv.quality.text
           /\ ~pv.preview_used

\* C10: in preview mode both calls are issued before either result is
\* consumed; the merged result is produced only after both have completed or
\* failed; a failure of one call never keeps the other's result from being
\* used; and the merged result is given by the two outcomes alone, whichever
\* call completed first.
C10_FanOutJoin ==
    /\ pv.mode = "preview" /\ (pv.fast.kind # "pending" \/ pv.quality.kind # "pending")
           => pv.issued = {"fast", "quality"}
    /\ Returned
           => /\ pv.fast.kind # "pending" /\ pv.quality.kind # "pending"
              /\ pv.quality.kind = "ok"
                     => pv.quality_slot = SlotOf(pv.quality.text)
              /\ pv.quality.kind = "ok" /\ pv.fast.kind = "ok"
                     => pv.preview = SlotOf(pv.fast.text)
              /\ pv.quality.kind # "ok" /\ pv.fast.kind = "ok"
                     => pv.quality_slot = SlotOf(pv.fast.text) /\ pv.preview = NoSlot
              /\ pv.fast.kind # "ok" => pv.preview = NoSlot
              /\ pv.fast.kind # "ok" /\ pv.quality.kind # "ok"
                     => pv.quality_slot = NoSlot

C10_Witness ==
    /\ Returned /\ pv.pc = "done"
    /\ pv.first = "quality"
    /\ pv.quality = Outcome("ok", <<"text B">>)
    /\ pv.fast = Outcome("ok", <<"text A">>)
    /\ pv.quality_slot = SlotOf(<<"text B">>)

(***************************************************************************)
(* OpenRouterClient.chat and chat_fast.  Each is wrapped by tenacity's     *)
(* retry, and chat_fast awaits chat inside its own retry.  The waits       *)
(* between attempts take time and change nothing.                          *)
(***************************************************************************)
\* APIConfig.MAX_RETRIES
MaxRetries == 3

\* httpx.TimeoutException, httpx.NetworkError
TransientOutcomes == {"timeout", "network"}

\* what a POST to /chat/completions comes back with
PostOutcomes == {"200", "401", "429", "500"} \cup TransientOutcomes

\* the exception chat raises for a response
ClientErrorOf(o) ==
    CASE o = "401" -> "ValueError: Invalid API key"
      [] o = "429" -> "RuntimeError: Rate limit exceeded"
      [] o = "500" -> "RuntimeError: API error"
      [] o = "timeout" -> "httpx.TimeoutException"
      [] o = "network" -> "httpx.NetworkError"
      [] OTHER -> "none"

\* stop_after_attempt(APIConfig.MAX_RETRIES) of chat_fast
FastRetries == MaxRetries

\* stop_after_attempt(APIConfig.MAX_RETRIES) of chat
ChatRetries == MaxRetries

\* chat(...) or chat_fast(...) is awaited: without a valid key chat raises
\* before any request, otherwise the first POST goes out
ClientChat(fast) ==
    /\ cl.exists
    /\ cl.pc \in {"idle", "done"}
    /\ LET c == [NoClientCall(TRUE, cl.has_valid_api_key) EXCEPT
                    !.op = IF fast THEN "chat_fast" ELSE "chat",
                    !.chat_attempt = 1,
                    !.fast_attempt = IF fast THEN 1 ELSE 0]
       IN  IF ~cl.has_valid_api_key
           THEN cl' = [c EXCEPT !.pc = "done",
                                !.raised = "ValueError: OpenRouter API key not configured"]
           ELSE cl' = [c EXCEPT !.pc = "post", !.posts = 1]
    /\ UNCHANGED <<credVars, cls, memVars, pipeVars, pv>>
    /\ UNCHANGED restVars

\* the POST in flight comes back
PostReturns(o) ==
    /\ cl.pc = "post"
    /\ LET c == [cl EXCEPT !.last = o,
                           !.failures = IF o \in TransientOutcomes THEN @ + 1 ELSE @]
       IN  IF o \notin TransientOutcomes
           THEN cl' = [c EXCEPT !.pc = "done", !.raised = ClientErrorOf(o)]
           ELSE IF cl.chat_attempt < ChatRetries
           THEN cl' = [c EXCEPT !.chat_attempt = @ + 1, !.posts = @ + 1]
           ELSE IF cl.op = "chat_fast" /\ cl.fast_attempt < FastRetries
           THEN cl' = [c EXCEPT !.fast_attempt = @ + 1, !.chat_attempt = 1,
                                !.posts = @ + 1]
           ELSE cl' = [c EXCEPT !.pc = "done", !.raised = ClientErrorOf(o)]
    /\ UNCHANGED <<credVars, cls, memVars, pipeVars, pv>>
    /\ UNCHANGED restVars

NextClient ==
    \/ \E fast \in BOOLEAN : ClientChat(fast)
    \/ \E o \in PostOutcomes : PostReturns(o)

SpecClient == Init /\ [][NextClient]_vars

(***************************************************************************)
(* C11: one chat or chat_fast request makes at most 3 HTTP attempts in     *)
(* all; another attempt follows only a timeout or a network error; a 401,  *)
(* a 429 or another non-200 response is raised as its own error at once;   *)
(* and after the third transient failure the error is raised.              *)
(***************************************************************************)
C11_AtMostThreeAttempts ==
    /\ cl.posts <= 3
    /\ (cl.pc = "post" /\ cl.posts > 1) => cl.last \in TransientOutcomes
    /\ cl.last \in {"401", "429", "500"} =>
           cl.pc = "done" /\ cl.raised = ClientErrorOf(cl.last)
    /\ cl.failures >= 3 => cl.pc = "done" /\ cl.raised = ClientErrorOf(cl.last)

(***************************************************************************)
(* The memory endpoints, one request at a time.                            *)
(***************************************************************************)
NextMemory ==
    \/ \E c \in MemoryContents, i \in RequestImportances : StoreMemory(c, "episodic", i, DefaultUser)
    \/ \E c \in MemoryContents : IngestMemory(c)
    \/ \E q \in MemoryQueries, t \in TypeFilters, l \in RetrieveLimits,
          f \in SalienceFloors, h \in ElapsedHours : RetrieveMemories(q, t, l, f, h, DefaultUser)
    \/ \E c \in MemoryContents, a \in ReinforceAmounts : ReinforceMemory(c, a)
    \/ \E c \in MemoryContents : DeleteMemory(c)
    \/ \E q \in MemoryQueries, l \in RetrieveLimits : GetRelevantContext(q, l)

\* The memory service reads no key: one environment stands for all.
InitMemory == Init /\ envKey = KeyAbsent

SpecMemory == InitMemory /\ [][NextMemory]_vars

MinImportance == 0

\* MemoryConfig.MAX_IMPORTANCE, in tenths
MaxImportance == 10

C13_ImportanceInUnitInterval ==
    \A m \in memories : MinImportance <= m.importance /\ m.importance <= MaxImportance

(***************************************************************************)
(* C14: reinforce with a positive amount on an existing record whose       *)
(* importance is below 1.0 strictly increases the stored importance of     *)
(* that record, never beyond 1.0, and lowers the importance of no record;  *)
(* so does the reinforcement of the top 3 results of /memory/retrieve.     *)
(***************************************************************************)
C14_ReinforceIncreases ==
    [][LET targets ==
               IF mem'.op = "reinforce" THEN {mem'.query}
               ELSE IF mem'.op = "retrieve"
               THEN {mem'.results[i].id : i \in 1..mem'.reinforced}
               ELSE {}
       IN  \A m \in memories :
               /\ \E n \in memories' : n.id = m.id /\ n.importance >= m.importance
               /\ (m.id \in targets /\ m.importance < MaxImportance) =>
                      \E n \in memories' :
                          /\ n.id = m.id
                          /\ n.importance > m.importance
                          /\ n.importance <= MaxImportance]_vars

(***************************************************************************)
(* C15: over h elapsed hours decay leaves every record with its previous   *)
(* importance times rate^h, for a rate below 1 (here in tenths): the       *)
(* importance does not grow, stays above zero, and no record is deleted.   *)
(***************************************************************************)
RECURSIVE Pow(_, _)
Pow(b, e) == IF e = 0 THEN 1 ELSE b * Pow(b, e - 1)

C15_DecayMultiplies ==
    [][(mem'.op = "retrieve" /\ mem'.hours >= 1) =>
           \E rate \in 1..9 :
               \A m \in memories :
                   \E n \in memories' :
                       /\ n.id = m.id
                       /\ n.importance * Pow(10, mem'.hours) =
                              m.importance * Pow(rate, mem'.hours)
                       /\ m.importance > 0 => n.importance > 0]_vars

(***************************************************************************)
(* C16: once store(content) has succeeded, retrieve with that content as   *)
(* the query, min_salience 0 and a limit of at least 1 returns a result    *)
(* set that holds the stored record, whatever else the table holds.        *)
(***************************************************************************)
C16_RoundTrip ==
    (/\ mem.op = "retrieve"
     /\ mem.memory_type = ""
     /\ mem.min_salience = 0
     /\ mem.limit >= 1
     /\ \E m \in memories : m.content = mem.query) =>
        \E i \in DOMAIN mem.results : mem.results[i].content = mem.query

C18_StoreReturnsContentId ==
    mem.op \in {"store", "ingest"} =>
        /\ ~mem.raised
        /\ mem.id = mem.query
        /\ Cardinality({m \in memories : m.content = mem.query}) = 1

(***************************************************************************)
(* C19: a keyword query returns at most limit records, in the order of     *)
(* non-increasing score = keyword_overlap * importance * recency_boost,    *)
(* and no matching record left out scores higher than one returned.        *)
(***************************************************************************)
RECURSIVE Words(_, _)
Words(s, word) ==
    IF s = <<>> THEN (IF word = <<>> THEN {} ELSE {word})
    ELSE IF s[1] = " " THEN (IF word = <<>> THEN {} ELSE {word}) \cup Words(Tail(s), <<>>)
    ELSE Words(Tail(s), Append(word, s[1]))

\* the words of the query found in the content
KeywordOverlap(query, content) ==
    Cardinality(Words(Lower(query), <<>>) \cap Words(Lower(content), <<>>))

\* the later the row was accessed, the higher
RecencyBoost(order, id) == CHOOSE i \in DOMAIN order : order[i] = id

C19_RankedByScore ==
    [][(mem'.op \in {"retrieve", "get_relevant_context"} /\ mem'.query # MemStar) =>
           LET rs == mem'.results
               Score(id) ==
                   KeywordOverlap(mem'.query, id) * RowOf(memories, id).importance
                       * RecencyBoost(recency, id)
               matching ==
                   {m \in Filtered(memories, mem'.memory_type, mem'.min_salience) :
                       ILikeTable[m.content, mem'.query]}
           IN  /\ ~mem'.raised
               /\ Len(rs) <= mem'.limit
               /\ \A i, j \in DOMAIN rs : i < j => Score(rs[i].id) >= Score(rs[j].id)
               /\ \A m \in matching :
                      (\A i \in DOMAIN rs : rs[i].id # m.id) =>
                          \A i \in DOMAIN rs : Score(m.id) <= Score(rs[i].id)]_vars

(***************************************************************************)
(* C20: with no API key configured a chat request, "install 1password"     *)
(* for one, is answered with the local offline template that lists the     *)
(* pacman/yay steps: not with an error, a setup prompt or a remote call.   *)
(***************************************************************************)
OfflineTemplate == <<"pacman -S <package> / yay -S <aur-package>">>

C20_OfflineTemplateWithoutKey ==
    (pc = "done" /\ req.msg # <<>> /\ ~KeyIsValid(envKey)) =>
        /\ resp.status = 200
        /\ resp.content = OfflineTemplate
        /\ ~InLog("fast_http") /\ ~InLog("quality_http")

(***************************************************************************)
(* C21: is_simple_query is true of the bare greeting "hi" and false of the *)
(* long task request "please refactor this 400-line module to use          *)
(* dependency injection"; it is true only of messages that are short,      *)
(* that open with a greeting, or that hold a common status pattern.        *)
(***************************************************************************)
ShortMessage(m) == Len(Strip(m)) < ShortQueryLen

GreetingLike(m) == \E g \in Greetings : StartsWith(Strip(Lower(m)), g)

StatusQuestion(m) == \E p \in SimplePatterns : Contains(Lower(m), p)

HasWordOf(m, words) == \E w \in words : Contains(Lower(m), w)

PriorityIntent(m) ==
    IF HasWordOf(m, PackageWords) THEN "package"
    ELSE IF HasWordOf(m, ActionWords) THEN "action"
    ELSE IF HasWordOf(m, MemoryWords) THEN "memory"
    ELSE "chat"

PriorityIntentTable == [m \in Messages |-> PriorityIntent(m)]

C22_FallbackPriority ==
    (cls.op = "analyze_intent" /\ cls.fallback) =>
        /\ cls.raised = "none"
        /\ cls.value.intent = PriorityIntentTable[cls.msg]
        /\ PriorityIntentTable[cls.msg] = "package" => cls.value.needs_action
        /\ cls.msg \in {MsgInstall, MsgInstallGit} => cls.value.intent = "package"

\* the fallback classified a message with package, action and memory words
C22_Witness ==
    /\ cls.op = "analyze_intent"
    /\ cls.fallback
    /\ cls.msg = MsgInstallGit
    /\ cls.value.intent = "package" /\ cls.value.needs_action

\* ---------------------------------------------------------------------------
\* Sessions: the handlers of routes/sessions.py and the tmux side.
\* ---------------------------------------------------------------------------

\* TmuxExecutor.get_session_status: tmux has-session, then the status file.
\* tmux_runs is FALSE when subprocess.run itself raises.
get_session_status(s, tmux_runs) ==
    IF ~tmux_runs THEN [status |-> "error", exit_code |-> <<>>]
    ELSE IF s.tmux # "alive"
    THEN IF s.file # <<>>
         THEN [status |-> IF s.file[1] = 0 THEN "completed" ELSE "failed",
               exit_code |-> s.file]
         ELSE [status |-> "unknown", exit_code |-> <<>>]
    ELSE [status |-> "running", exit_code |-> <<>>]

\* status.get("exit_code") or session.exit_code: None and 0 are both falsy, and
\* the row's exit_code is never written.
ExitCodeOrRow(exit_code) ==
    IF exit_code = <<>> \/ exit_code = <<0>> THEN <<>> ELSE exit_code

SessionAnswer(op, id, code, status, exit_code) ==
    [op |-> op, id |-> id, code |-> code, status |-> status,
     exit_code |-> exit_code, listed |-> {}]

\* POST /sessions/
CreateSession(id, tmux_starts) ==
    /\ ss.rows[id] = NoSession
    /\ IF tmux_starts
       THEN ss' = [rows |-> [ss.rows EXCEPT ![id] =
                                [db |-> "running", tmux |-> "alive", file |-> <<>>]],
                   last |-> SessionAnswer("create_session", id, 200, "running", <<>>)]
       ELSE ss' = [ss EXCEPT !.last = SessionAnswer("create_session", id, 500, "none", <<>>)]
    /\ UNCHANGED <<coreVars, ws, ag>>

\* _wrap_command: the command ends and its exit code goes to the status file.
CommandExits(id, exit_code) ==
    /\ ss.rows[id].tmux = "alive"
    /\ ss.rows[id].file = <<>>
    /\ ss' = [ss EXCEPT !.rows[id].file = <<exit_code>>]
    /\ UNCHANGED <<coreVars, ws, ag>>

\* _wrap_command: exit $EXIT_CODE ends the shell, and the tmux session with it.
ShellExits(id) ==
    /\ ss.rows[id].tmux = "alive"
    /\ ss.rows[id].file # <<>>
    /\ ss' = [ss EXCEPT !.rows[id].tmux = "gone"]
    /\ UNCHANGED <<coreVars, ws, ag>>

\* GET /sessions/{session_id}
GetSession(id, tmux_runs) ==
    /\ IF ss.rows[id].db = "none"
       THEN ss' = [ss EXCEPT !.last = SessionAnswer("get_session", id, 404, "none", <<>>)]
       ELSE LET status == get_session_status(ss.rows[id], tmux_runs)
            IN  ss' = [ss EXCEPT !.last =
                          SessionAnswer("get_session", id, 200, status.status,
                                        ExitCodeOrRow(status.exit_code))]
    /\ UNCHANGED <<coreVars, ws, ag>>

\* GET /sessions/
ListSessions ==
    /\ ss' = [ss EXCEPT !.last =
                 [SessionAnswer("list_sessions", "none", 200, "none", <<>>)
                     EXCEPT !.listed = {i \in SessionIds : ss.rows[i].db = "running"}]]
    /\ UNCHANGED <<coreVars, ws, ag>>

\* DELETE /sessions/{session_id}
KillSession(id) ==
    /\ IF ss.rows[id].db = "none"
       THEN ss' = [ss EXCEPT !.last = SessionAnswer("kill_session", id, 404, "none", <<>>)]
       ELSE ss' = [rows |-> [ss.rows EXCEPT
                                ![id].tmux = IF @ = "alive" THEN "gone" ELSE @,
                                ![id].db = "killed"],
                   last |-> SessionAnswer("kill_session", id, 200, "killed", <<>>)]
    /\ UNCHANGED <<coreVars, ws, ag>>

InitSessions == Init /\ envKey = KeyAbsent

NextSessions ==
    \/ \E id \in SessionIds, tmux_starts \in BOOLEAN : CreateSession(id, tmux_starts)
    \/ \E id \in SessionIds, exit_code \in ExitCodes : CommandExits(id, exit_code)
    \/ \E id \in SessionIds : ShellExits(id)
    \/ \E id \in SessionIds, tmux_runs \in BOOLEAN : GetSession(id, tmux_runs)
    \/ ListSessions
    \/ \E id \in SessionIds : KillSession(id)

SpecSessions == InitSessions /\ [][NextSessions]_vars

\* The command of session id is still running.
StillRunning(id) == ss.rows[id].tmux = "alive" /\ ss.rows[id].file = <<>>

SessionStatuses == {"running", "completed", "failed", "killed"}

\* C23: the status get_session reports is one of running, completed, failed and
\* killed; it is completed or failed only for a command that exited with code 0
\* or with another code; a command that ran to its end by itself is reported
\* completed or failed by its code; and a session kill_session has killed is
\* reported killed by every later get_session.
C23_StatusFollowsCommand ==
    [][(ss' # ss /\ ss'.last.op = "get_session" /\ ss'.last.code = 200) =>
         LET s == ss.rows[ss'.last.id]
             status == ss'.last.status
         IN  /\ status \in SessionStatuses
             /\ (status = "completed") => (s.file = <<0>>)
             /\ (status = "failed") => (s.file = <<1>>)
             /\ (s.db = "running" /\ s.tmux = "gone") =>
                    (status = IF s.file = <<0>> THEN "completed" ELSE "failed")
             /\ (s.db = "killed") => (status = "killed")]_vars

\* C24: GET /sessions lists exactly the sessions whose command is still running.
C24_ListsRunningCommands ==
    [][(ss' # ss /\ ss'.last.op = "list_sessions") =>
         (ss'.last.listed = {i \in SessionIds : StillRunning(i)})]_vars

\* ---------------------------------------------------------------------------
\* Dashboard websocket: the handler of routes/websocket.py and the manager.
\* ---------------------------------------------------------------------------

\* ConnectionManager.disconnect
Disconnect(connections, w) == [c \in Channels |-> connections[c] \ {w}]

RECURSIVE DisconnectEach(_, _)
\* broadcast: for websocket in disconnected: self.disconnect(websocket)
DisconnectEach(connections, disconnected) ==
    IF disconnected = {} THEN connections
    ELSE LET w == CHOOSE x \in disconnected : TRUE
         IN  DisconnectEach(Disconnect(connections, w), disconnected \ {w})

\* websocket_endpoint up to its loop: ConnectionManager.connect. The welcome is
\* sent outside the try block: when the client has left by then, the exception
\* ends the handler and nothing removes the socket from the sets.
Connect(w, subscription, welcome_sent) ==
    /\ ws.handler[w] = "none"
    /\ ws' = [ws EXCEPT
                !.connections = [c \in Channels |->
                                    IF c = subscription \/ c = "all" THEN @[c] \cup {w} ELSE @[c]],
                !.asked[w] = IF subscription \in Channels THEN {subscription} ELSE {},
                !.net[w] = IF welcome_sent THEN "open" ELSE "closed",
                !.handler[w] = IF welcome_sent THEN "running" ELSE "ended"]
    /\ UNCHANGED <<coreVars, ss, ag>>

\* the client goes away
ClientCloses(w) ==
    /\ ws.net[w] = "open"
    /\ ws' = [ws EXCEPT !.net[w] = "closed"]
    /\ UNCHANGED <<coreVars, ss, ag>>

\* websocket_endpoint: receive_json raises WebSocketDisconnect
HandlerDisconnect(w) ==
    /\ ws.handler[w] = "running"
    /\ ws.net[w] = "closed"
    /\ ws' = [ws EXCEPT !.connections = Disconnect(@, w),
                        !.handler[w] = "ended",
                        !.dropped = @ \cup {w}]
    /\ UNCHANGED <<coreVars, ss, ag>>

ClientActions == {"ping", "subscribe", "unsubscribe"}

\* websocket_endpoint: one message of the client, then send_personal. leaves says
\* that the client goes away before the answer is sent: send_personal then
\* disconnects the socket and the loop goes on to receive_json.
ClientMessage(w, action, channel, leaves) ==
    /\ ws.handler[w] = "running"
    /\ ws.net[w] = "open"
    /\ LET connections ==
               CASE action = "subscribe" /\ channel \in Channels ->
                        [ws.connections EXCEPT ![channel] = @ \cup {w}]
                 [] action = "unsubscribe" /\ channel \in Channels ->
                        [ws.connections EXCEPT ![channel] = @ \ {w}]
                 [] OTHER -> ws.connections
           asked ==
               CASE action = "subscribe" /\ channel \in Channels -> ws.asked[w] \cup {channel}
                 [] action = "unsubscribe" /\ channel \in Channels -> ws.asked[w] \ {channel}
                 [] OTHER -> ws.asked[w]
       IN  ws' = [ws EXCEPT
                    !.connections = IF leaves THEN Disconnect(connections, w) ELSE connections,
                    !.asked[w] = asked,
                    !.net[w] = IF leaves THEN "closed" ELSE @,
                    !.dropped = IF leaves THEN @ \cup {w} ELSE @]
    /\ UNCHANGED <<coreVars, ss, ag>>

\* ConnectionManager.broadcast up to its first send: the targets are copied.
BroadcastStart(b, channel) ==
    /\ ws.bc[b].pc = "idle"
    /\ channel \in Channels
    /\ LET targets == ws.connections[channel] \cup ws.connections["all"]
       IN  /\ targets # {}
           /\ ws' = [ws EXCEPT !.bc[b] = [pc |-> "sending", channel |-> channel,
                                          targets |-> targets, disconnected |-> {},
                                          sent |-> {}, late |-> ws.dropped]]
    /\ UNCHANGED <<coreVars, ss, ag>>

\* ConnectionManager.broadcast: await websocket.send_json(message) for one of the
\* targets; after the last one the failed sockets are disconnected.
BroadcastSend(b, w) ==
    /\ ws.bc[b].pc = "sending"
    /\ w \in ws.bc[b].targets
    /\ LET delivered == ws.net[w] = "open"
           targets == ws.bc[b].targets \ {w}
           disconnected == IF delivered THEN ws.bc[b].disconnected
                           ELSE ws.bc[b].disconnected \cup {w}
           dropped == IF delivered THEN ws.dropped ELSE ws.dropped \cup {w}
       IN  IF targets # {}
           THEN ws' = [ws EXCEPT !.bc[b].targets = targets,
                                 !.bc[b].disconnected = disconnected,
                                 !.bc[b].sent = @ \cup {w},
                                 !.dropped = dropped]
           ELSE ws' = [ws EXCEPT !.bc[b] = NoBroadcast,
                                 !.connections = DisconnectEach(@, disconnected),
                                 !.dropped = dropped]
    /\ UNCHANGED <<coreVars, ss, ag>>

InitSockets == Init /\ envKey = KeyAbsent

NextSockets ==
    \/ \E w \in Sockets, subscription \in Subscriptions, welcome_sent \in BOOLEAN :
           Connect(w, subscription, welcome_sent)
    \/ \E w \in Sockets : ClientCloses(w)
    \/ \E w \in Sockets : HandlerDisconnect(w)
    \/ \E w \in Sockets, action \in ClientActions, channel \in Subscriptions, leaves \in BOOLEAN :
           ClientMessage(w, action, channel, leaves)
    \/ \E b \in Broadcasts, channel \in BroadcastChannels : BroadcastStart(b, channel)
    \/ \E b \in Broadcasts, w \in Sockets : BroadcastSend(b, w)

SpecSockets == InitSockets /\ [][NextSockets]_vars

\* The sockets broadcast b sends its message to in this step.
SentTo(b) == IF ws.bc[b].pc = "sending" THEN ws.bc[b].targets \ ws'.bc[b].targets ELSE {}

\* C25: a socket receives an update broadcast on a channel only while it is
\* subscribed to that channel or has itself asked for "all"; after it has
\* unsubscribed from the channel it receives no update broadcast on it.
C25_SubscriptionFilters ==
    [][\A b \in Broadcasts : \A w \in SentTo(b) :
          (ws.net[w] = "open") =>
              (ws.bc[b].channel \in ws.asked[w] \/ "all" \in ws.asked[w])]_vars

\* The sockets whose send failed in a broadcast that has not finished yet.
AwaitingCleanup == UNION {ws'.bc[b].disconnected : b \in Broadcasts}

\* C30: under any interleaving, a socket that was disconnected, or whose send
\* failed during a broadcast that has since finished, is in no channel set; a
\* socket that had been dropped when a broadcast started is not sent that
\* broadcast; and a broadcast sends to each socket at most once.
C30_DroppedSocketsStayOut ==
    [][/\ \A w \in ws'.dropped \ AwaitingCleanup :
              \A c \in Channels : w \notin ws'.connections[c]
       /\ \A b \in Broadcasts : \A w \in SentTo(b) :
              /\ w \notin ws.bc[b].late
              /\ w \notin ws.bc[b].sent]_vars

\* C26: after any sequence of key-saving operations the processor agrees with the
\* environment: has_valid_api_key is true exactly when OPENROUTER_API_KEY passes
\* the validity check of the chat endpoint, and the Authorization header carries
\* that key.
C26_CredentialsAgree ==
    /\ has_valid_api_key <=> KeyIsValid(envKey)
    /\ authKey = envKey

(***************************************************************************)
(* The memory endpoints called for several users.                          *)
(***************************************************************************)
NextUsers ==
    \/ \E c \in MemoryContents, u \in UserIds :
           StoreMemory(c, "episodic", DefaultImportance, u)
    \/ \E q \in MemoryQueries, l \in RetrieveLimits, u \in UserIds :
           RetrieveMemories(q, "", l, 0, 0, u)

SpecUsers == InitMemory /\ [][NextUsers]_vars

\* C27: retrieve(query, user_id=u) returns only records that were stored with
\* user_id u.
C27_RetrieveOwnRecords ==
    (mem.op = "retrieve" /\ mem.status = 200) =>
        \A i \in DOMAIN mem.results :
            RowOf(memories, mem.results[i].id).user_id = mem.user_id

\* ---------------------------------------------------------------------------
\* The action registry: POST /actions/ and POST /ingest/action.
\* ---------------------------------------------------------------------------

ActionAnswer(op, binary, status, outcome) ==
    [op |-> op, binary |-> binary, status |-> status, result |-> outcome]

\* POST /actions/: the 404 is raised inside the try block and except Exception
\* answers 500 in its place; a second row with the same id violates the
\* primary key.
CreateAction(binary, safety) ==
    /\ IF binary \notin OnPath \/ registry.rows[binary] # NoRow
       THEN registry' = [registry EXCEPT !.last = ActionAnswer("create_action", binary, 500, "")]
       ELSE registry' = [rows |-> [registry.rows EXCEPT ![binary] = <<safety>>],
                    last |-> ActionAnswer("create_action", binary, 200, "created")]
    /\ UNCHANGED <<credVars, cls, memVars, cl, pipeVars, pv, ss, ws, ag>>

\* POST /ingest/action: the same 404 inside the same try block; an existing row
\* is updated.
IngestAction(binary, safety) ==
    /\ IF binary \notin OnPath
       THEN registry' = [registry EXCEPT !.last = ActionAnswer("ingest_action", binary, 500, "")]
       ELSE registry' = [rows |-> [registry.rows EXCEPT ![binary] = <<safety>>],
                    last |-> ActionAnswer("ingest_action", binary, 200,
                                          IF registry.rows[binary] # NoRow THEN "updated"
                                          ELSE "created")]
    /\ UNCHANGED <<credVars, cls, memVars, cl, pipeVars, pv, ss, ws, ag>>

InitActions == Init /\ envKey = KeyAbsent

\* The handlers that raise a client error inside their try block.
NextActions ==
    \/ \E binary \in Binaries, safety \in SafetyLevels : CreateAction(binary, safety)
    \/ \E binary \in Binaries, safety \in SafetyLevels : IngestAction(binary, safety)
    \/ \E quick_mode, show_thinking \in BOOLEAN : OpenaiChat(<<>>, quick_mode, show_thinking)

SpecActions == InitActions /\ [][NextActions]_vars

\* C28: a /v1/chat/completions request with no user message is answered with
\* status 400, and registering or ingesting an action whose binary does not exist
\* is answered with status 404.
C28_ClientErrorsReachCaller ==
    /\ (pc = "done" /\ req.msg = <<>>) => (resp.status = 400)
    /\ (registry.last.op # "none" /\ registry.last.binary \notin OnPath) => (registry.last.status = 404)

\* ---------------------------------------------------------------------------
\* Sub-agents: the handlers of routes/agents.py and the registry.
\* ---------------------------------------------------------------------------

\* the methods TmuxExecutor defines: execute_async and send_keys are not among them
TmuxExecutorMethods ==
    {"create_session", "_wrap_command", "get_session_status", "get_session_output",
     "list_sessions", "kill_session"}

\* SubAgent.execute_task: RUNNING, then COMPLETED when tmux.execute_async returns
\* and ERROR when the call raises.
execute_task(agent) ==
    LET running == [agent EXCEPT !.task = "running", !.state = "running"]
    IN  IF "execute_async" \in TmuxExecutorMethods
        THEN [running EXCEPT !.task = "completed", !.state = "completed"]
        ELSE [running EXCEPT !.task = "error", !.state = "error"]

AgentAnswer(op, session_id, status) == [op |-> op, session_id |-> session_id, status |-> status]

\* POST /agents/spawn: AgentRegistry.spawn_agent awaits execute_task
SpawnAgent(sid, defined) ==
    /\ ag.agents[sid] = NoAgent
    /\ IF ~defined
       THEN ag' = [ag EXCEPT !.last = AgentAnswer("spawn", sid, 404)]
       ELSE ag' = [agents |-> [ag.agents EXCEPT ![sid] =
                                  execute_task([listed |-> TRUE, state |-> "idle",
                                                task |-> "idle"])],
                   last |-> AgentAnswer("spawn", sid, 200)]
    /\ UNCHANGED <<coreVars, ss, ws>>

\* POST /agents/running/{session_id}/pause: SubAgent.pause sets PAUSED, then calls
\* tmux.send_keys
PauseAgent(sid) ==
    /\ IF ~ag.agents[sid].listed
       THEN ag' = [ag EXCEPT !.last = AgentAnswer("pause", sid, 404)]
       ELSE ag' = [agents |-> [ag.agents EXCEPT ![sid].state = "paused"],
                   last |-> AgentAnswer("pause", sid,
                                        IF "send_keys" \in TmuxExecutorMethods
                                        THEN 200 ELSE 500)]
    /\ UNCHANGED <<coreVars, ss, ws>>

\* POST /agents/running/{session_id}/resume: SubAgent.resume
ResumeAgent(sid) ==
    /\ IF ~ag.agents[sid].listed
       THEN ag' = [ag EXCEPT !.last = AgentAnswer("resume", sid, 404)]
       ELSE ag' = [agents |-> [ag.agents EXCEPT ![sid].state = "running"],
                   last |-> AgentAnswer("resume", sid, 200)]
    /\ UNCHANGED <<coreVars, ss, ws>>

\* POST /agents/running/{session_id}/kill: AgentRegistry.kill_agent, SubAgent.kill
KillAgent(sid) ==
    /\ IF ~ag.agents[sid].listed
       THEN ag' = [ag EXCEPT !.last = AgentAnswer("kill", sid, 200)]
       ELSE ag' = [agents |-> [ag.agents EXCEPT ![sid].state = "completed",
                                                ![sid].listed = FALSE],
                   last |-> AgentAnswer("kill", sid, 200)]
    /\ UNCHANGED <<coreVars, ss, ws>>

\* AgentRegistry.cleanup_completed
CleanupCompleted ==
    /\ ag' = [agents |-> [sid \in AgentSessions |->
                             IF ag.agents[sid].state \in {"completed", "error"}
                             THEN [ag.agents[sid] EXCEPT !.listed = FALSE]
                             ELSE ag.agents[sid]],
              last |-> AgentAnswer("cleanup", "", 200)]
    /\ UNCHANGED <<coreVars, ss, ws>>

InitAgents == Init /\ envKey = KeyAbsent

NextAgents ==
    \/ \E sid \in AgentSessions, defined \in BOOLEAN : SpawnAgent(sid, defined)
    \/ \E sid \in AgentSessions : PauseAgent(sid)
    \/ \E sid \in AgentSessions : ResumeAgent(sid)
    \/ \E sid \in AgentSessions : KillAgent(sid)
    \/ CleanupCompleted

SpecAgents == InitAgents /\ [][NextAgents]_vars

TerminalStates == {"completed", "error"}

\* C29: execute_task leaves the task and the agent both COMPLETED or both ERROR;
\* an agent that is COMPLETED or ERROR is never moved to RUNNING or PAUSED; and
\* cleanup_completed removes every agent whose task has ended from the running
\* list.
C29_TerminalStatesStable ==
    [][\A sid \in AgentSessions :
          /\ (ag.agents[sid] = NoAgent /\ ag'.agents[sid] # NoAgent) =>
                 /\ ag'.agents[sid].state = ag'.agents[sid].task
                 /\ ag'.agents[sid].state \in TerminalStates
          /\ (ag.agents[sid].state \in TerminalStates) =>
                 (ag'.agents[sid].state \notin {"running", "paused"})
          /\ (ag'.last.op = "cleanup" /\ ag.agents[sid].task \in TerminalStates) =>
                 ~ag'.agents[sid].listed]_vars

====
